---- MODULE Spec2Model ----
(***************************************************************************)
(* Model of the job scheduling reconciler of src/modules.py                *)
(* (class SchedulerModule) together with the parts of the in-process       *)
(* scheduler (APScheduler BackgroundScheduler, default memory job store    *)
(* and thread-pool executor) that the module drives.                       *)
(*                                                                         *)
(* Three kinds of thread take steps:                                       *)
(*   - the UI thread: SchedulerModule.__init__ (load_jobs_from_db, then    *)
(*     check_missed_jobs) and afterwards the handlers toggle_job and       *)
(*     delete_job;                                                         *)
(*   - the scheduler thread: takes a due trigger and dispatches a run;     *)
(*   - the pool workers: run execute_job_by_id for a dispatched run.       *)
(* Time is a discrete clock; one tick is an arbitrary amount of wall time. *)
(*                                                                         *)
(* The second half models the forms that write to the store on the UI      *)
(* thread: save_job of SchedulerModule and, for the templates and fields   *)
(* tables, class OCRTrainerModule with its CanvasWidget.                   *)
(***************************************************************************)
EXTENDS Integers, FiniteSets, Sequences, TLC

\* ------------------------------------------------------------------------
\* Bounds of the model
\* ------------------------------------------------------------------------
\* clock reading at process start; persisted times before it are in the past
BootTime == 4
\* number of clock ticks explored after process start
Horizon == 1
\* the misfire_grace_time of the jobs, in ticks
Grace == 1
\* the interval_seconds of the interval jobs, in ticks
IntervalLen == 1
\* a cron trigger fires on the clock readings that are multiples of this
CronPeriod == 2
\* execution counters saturate here
MaxRuns == 2
\* number of toggle_job calls explored after startup
MaxToggles == 1
\* number of delete_job calls explored after startup
MaxDeletes == 1
\* number of save_job calls explored
MaxJobSaves == 2
\* number of save_template calls explored
MaxTemplateSaves == 2
\* number of run_extraction calls explored
MaxExtractions == 1
\* number of open_pdf calls explored
MaxOpens == 2
\* number of generate_draft calls explored
MaxDrafts == 1

\* the job ids of the rows in the jobs table
JobIds == {1, 2}
\* the positions of the boxes drawn on the canvas
BoxIndexes == {1, 2}
MaxTime == BootTime + Horizon

\* Python None for a nullable DateTime / Integer column
Null == -1
\* Python None for a nullable String column
NullStr == "None"

Min(S) == CHOOSE x \in S : \A y \in S : x <= y

\* ------------------------------------------------------------------------
\* Text that the code takes apart: a sequence of one-character strings
\* ------------------------------------------------------------------------
\* Python None where such a text is expected
NoText == <<"None">>

DigitValue(c) ==
    CASE c = "0" -> 0 [] c = "1" -> 1 [] c = "2" -> 2 [] c = "3" -> 3
      [] c = "4" -> 4 [] c = "5" -> 5 [] c = "6" -> 6 [] c = "7" -> 7
      [] c = "8" -> 8 [] c = "9" -> 9 [] OTHER -> Null

\* s.split(sep): the pieces of s between the occurrences of sep
RECURSIVE split(_, _)
split(s, sep) ==
    IF s = <<>> THEN << <<>> >>
    ELSE LET rest == split(Tail(s), sep) IN
         IF Head(s) = sep
         THEN << <<>> >> \o rest
         ELSE << <<Head(s)>> \o Head(rest) >> \o Tail(rest)

\* int(s) for a text of decimal digits; Null stands for ValueError
RECURSIVE int(_)
int(s) ==
    IF s = <<>> THEN Null
    ELSE LET d == DigitValue(s[Len(s)]) IN
         IF d = Null THEN Null
         ELSE IF Len(s) = 1 THEN d
         ELSE LET hi == int(SubSeq(s, 1, Len(s) - 1)) IN
              IF hi = Null THEN Null ELSE 10 * hi + d

\* "h, m = map(int, recurrence_time.split(':'))" followed by
\* CronTrigger(hour=h, minute=m): TRUE when none of them raises
CronTimeAccepted(recurrence_time) ==
    /\ recurrence_time # NoText
    /\ LET parts == split(recurrence_time, ":") IN
       /\ Len(parts) = 2
       /\ int(parts[1]) \in 0..23
       /\ int(parts[2]) \in 0..59

\* ------------------------------------------------------------------------
\* State
\* ------------------------------------------------------------------------
VARIABLES
    now,        \* datetime.datetime.now()
    store,      \* the jobs table: job id -> row
    triggers,   \* the scheduler's job store: job id -> job "job_<id>"
    pool,       \* the executor: job id -> the dispatched instance of that job
    uiPc,       \* position of the UI thread
    uiJob,      \* the job the UI thread is working on
    uiTodo,     \* rows of the UI thread's query still to be iterated
    checkNow,   \* the local 'now' of check_missed_jobs
    runs,       \* history: number of script executions started, per job
    checkRuns,  \* history: executions started by check_missed_jobs, per job
    returncode, \* history: result.returncode of the run that ended last
    toggles,    \* history: number of toggle_job calls so far
    toggledOff, \* history: jobs whose enabled flag toggle_job last set false
    pass,       \* history: which run of the startup reconciliation this is
    first,      \* history: what the first run of the reconciliation left:
                \* the live triggers, the jobs whose catch-up run returned
    boot,       \* history: the jobs table as it was at process start
    sessions,   \* the open SessionLocal() sessions, by the thread that holds
                \* them: 0 is the UI thread, j the worker running job_<j>
    alive,      \* the process is running
    deletes,    \* history: number of delete_job calls so far
    deleteReply,\* history: the last "Confirm Delete" question (the job it
                \* was about) and the answer to it
    jobSaves,   \* history: number of save_job calls so far
    saveJobArgs,\* history: name and script of the last save_job call
    templates,  \* the templates table: template id -> row
    fields,     \* the fields table: field id -> row
    canvas_pixmap,       \* CanvasWidget.pixmap: the sample page shown
    canvas_boxes,        \* CanvasWidget.boxes
    canvas_scale_factor, \* CanvasWidget.scale_factor
    actual_page,    \* OCRTrainerModule.actual_page_width / _height
    template_combo, \* the item data of OCRTrainerModule.template_combo
    result_table,   \* the rows of OCRTrainerModule.result_table
    templateSaves,  \* history: number of save_template calls so far
    saveTemplateArgs, \* history: the last save_template call: the text of
                    \* the name field, the answer to the "Template Exists"
                    \* question
    defined,        \* history: template id -> the box names in the order
                    \* the boxes were drawn, as save_template saw them
    extractions,    \* history: number of run_extraction calls so far
    extractArgs,    \* history: the last run_extraction call: the id of the
                    \* selected template (0 when the call returned before
                    \* it read the selection), whether the document could
                    \* be read, its first page, for every field read the
                    \* rectangle and the raw text, and whether the except
                    \* clause showed QMessageBox.critical
    weekly,         \* history: the last weekly job looked at on the
                    \* calendar: the boxes checked, the day_of_week text
                    \* persisted, 'now' and the next fire time of its
                    \* trigger
    docks,          \* PDFEditorModule.docks: of each dock its windowTitle
                    \* and of its PDFTab the doc, is_temp and temp_path
    temp_files,     \* the files in PDFEditorModule.temp_dir
    opens,          \* history: number of open_pdf calls so far
    editorOp,       \* history: the last call of open_pdf, close_tab or
                    \* close_all and the answer to its question
    attach_list,    \* MailDrafterModule.attach_list: of each item its
                    \* text, check state and UserRole data, and (history)
                    \* the doc of the tab it was made for
    drafts,         \* history: number of generate_draft calls so far
    draft           \* history: the last generate_draft call: the subject,
                    \* the attachments (item and save_path) and the files
                    \* in the draft folder (save_path and the doc saved)

\* a UI handler has run since startup
userActed == toggles > 0 \/ deletes > 0

\* the state of the job form
jobFormVars == <<jobSaves, saveJobArgs>>

\* the state of the OCR trainer
ocrVars == <<templates, fields, canvas_pixmap, canvas_boxes,
             canvas_scale_factor, actual_page, template_combo, result_table,
             templateSaves, saveTemplateArgs, defined, extractions,
             extractArgs>>

\* the state of the scheduler
schedVars == <<now, store, triggers, pool, uiPc, uiJob, uiTodo, checkNow,
               runs, checkRuns, returncode, toggles, toggledOff, pass, first,
               boot, sessions, alive, deletes, deleteReply>>

\* the state of the PDF editor and of the mail drafter
editorVars == <<docks, temp_files, opens, editorOp, attach_list, drafts,
                draft>>

\* the calendar view of a weekly job, the editor and the mail drafter
otherVars == <<weekly, editorVars>>

vars == <<schedVars, jobFormVars, ocrVars, otherVars>>

\* ------------------------------------------------------------------------
\* The jobs table (class Job)
\* ------------------------------------------------------------------------
NoJob ==
    [present |-> FALSE, job_type |-> NullStr, run_date |-> Null,
     recurrence |-> NullStr, interval_seconds |-> Null,
     recurrence_time |-> NoText, day_of_week |-> NoText,
     last_run |-> Null, next_run |-> Null, enabled |-> FALSE,
     misfire_grace_time |-> Null]

\* persisted times relative to process start: missed by more than the grace
\* time, missed within the grace time, and still to come
Late == BootTime - Grace - 1
Recent == BootTime - 1
Ahead == BootTime + 1

\* rows written by save_job for a one-time job: next_run = run_date
OneTimeRow(rd, en) ==
    [present |-> TRUE, job_type |-> "one_time", run_date |-> rd,
     recurrence |-> NullStr, interval_seconds |-> Null,
     recurrence_time |-> NoText, day_of_week |-> NoText,
     last_run |-> Null, next_run |-> rd, enabled |-> en,
     misfire_grace_time |-> Grace]

\* rows written by save_job for an interval job; next_run is what an
\* earlier schedule_job left there
IntervalRow(nr, en) ==
    [present |-> TRUE, job_type |-> "recurring", run_date |-> Null,
     recurrence |-> "interval", interval_seconds |-> IntervalLen,
     recurrence_time |-> NoText, day_of_week |-> NoText,
     last_run |-> Null, next_run |-> nr, enabled |-> en,
     misfire_grace_time |-> Grace]

\* rows written by save_job for a weekly job; with no weekday box checked
\* day_of_week is the empty string, no trigger can be built and next_run
\* was never written
WeeklyRow(days, nr) ==
    [present |-> TRUE, job_type |-> "recurring", run_date |-> Null,
     recurrence |-> "weekly", interval_seconds |-> Null,
     recurrence_time |-> <<"0", "9", ":", "0", "0">>, day_of_week |-> days,
     last_run |-> Null, next_run |-> nr, enabled |-> TRUE,
     misfire_grace_time |-> Grace]

OneTimeRows ==
    {OneTimeRow(rd, TRUE) : rd \in {Late, Recent, Ahead}}
        \cup {OneTimeRow(Recent, FALSE)}

IntervalRows ==
    {IntervalRow(nr, TRUE) : nr \in {Late, Recent}}
        \cup {IntervalRow(Recent, FALSE)}

WeeklyRows == {WeeklyRow(<<"0", ",", "2">>, Recent), WeeklyRow(<<>>, Null)}

Rows == {NoJob} \cup OneTimeRows \cup IntervalRows \cup WeeklyRows

\* rows that save_job does not write but a database file can hold: a
\* recurrence kind that schedule_job does not know, an interval job without
\* interval_seconds, and times of day that are not HH:MM (save_job stores
\* the text of the time field as typed)
UnknownKindRow ==
    [WeeklyRow(<<"0", ",", "2">>, Null) EXCEPT !.recurrence = "yearly"]

NoIntervalRow ==
    [IntervalRow(Null, TRUE) EXCEPT !.interval_seconds = Null]

BadTimes ==
    {<<"9">>, <<"2", "5", ":", "0", "0">>, <<"0", "9", ":", "x", "0">>}

BadTimeRows ==
    {[WeeklyRow(<<"0", ",", "2">>, Null) EXCEPT !.recurrence_time = t] : t \in BadTimes}

AnyRows ==
    {UnknownKindRow, NoIntervalRow, WeeklyRow(<<>>, Null)} \cup BadTimeRows
        \cup {IntervalRow(Recent, TRUE), WeeklyRow(<<"0", ",", "2">>, Recent),
               OneTimeRow(Ahead, TRUE)}

\* ------------------------------------------------------------------------
\* The templates and fields tables (class Template, class Field)
\* ------------------------------------------------------------------------
\* the ids that the rows can get: every save_template call adds at most
\* one template and one field for each box
TemplateIds == 1..(MaxTemplateSaves + 1)
FieldIds == 1..((MaxTemplateSaves + 1) * Cardinality(BoxIndexes))

NoTemplate ==
    [present |-> FALSE, name |-> NoText, base_width |-> Null,
     base_height |-> Null]

NoField ==
    [present |-> FALSE, template_id |-> 0, name |-> NoText, x |-> Null,
     y |-> Null, width |-> Null, height |-> Null]

\* no page: the attribute is not set, no pixmap is shown
NoPage == [width |-> Null, height |-> Null]

\* no weekly job was looked at
NoWeekly ==
    [checked |-> {}, day_of_week |-> NoText, now |-> Null,
     next_run_time |-> Null]

\* no draft was generated
NoDraft == [subject |-> <<>>, attachments |-> <<>>, folder |-> {}]

\* the extractArgs of a call that returned before it read the selection
NoExtraction ==
    [template_id |-> 0, readable |-> FALSE, page |-> NoPage, read |-> <<>>,
     critical |-> FALSE]

\* ------------------------------------------------------------------------
\* Triggers (DateTrigger, IntervalTrigger, CronTrigger) and the job store
\* ------------------------------------------------------------------------
NoTrigger ==
    [live |-> FALSE, kind |-> NullStr, arg |-> Null,
     next_run_time |-> Null, misfire_grace_time |-> Null]

\* mutant of BuildTrigger: a weekly job without weekdays gets a trigger
BuildTrigger_any_weekdays(job_db) ==
    IF job_db.job_type = "one_time"
    THEN [res |-> "ok", kind |-> "date", arg |-> job_db.run_date]
    ELSE IF job_db.job_type = "recurring"
    THEN IF job_db.recurrence = "interval"
         THEN IF job_db.interval_seconds = Null
              THEN [res |-> "raise", kind |-> NullStr, arg |-> Null]
              ELSE [res |-> "ok", kind |-> "interval",
                    arg |-> job_db.interval_seconds]
         ELSE IF job_db.recurrence \in {"daily", "weekly", "monthly"}
         THEN IF ~CronTimeAccepted(job_db.recurrence_time)
              THEN [res |-> "raise", kind |-> NullStr, arg |-> Null]
              ELSE [res |-> "ok", kind |-> "cron", arg |-> CronPeriod]
         ELSE [res |-> "return", kind |-> NullStr, arg |-> Null]
    ELSE [res |-> "return", kind |-> NullStr, arg |-> Null]

\* the try block of schedule_job up to add_job: which trigger the record
\* yields; "return" is the silent return, "raise" an exception caught by
\* the except clause
BuildTrigger(job_db) ==
    IF job_db.job_type = "one_time"
    THEN [res |-> "ok", kind |-> "date", arg |-> job_db.run_date]
    ELSE IF job_db.job_type = "recurring"
    THEN IF job_db.recurrence = "interval"
         THEN IF job_db.interval_seconds = Null
              THEN [res |-> "raise", kind |-> NullStr, arg |-> Null]
              ELSE [res |-> "ok", kind |-> "interval",
                    arg |-> job_db.interval_seconds]
         ELSE IF job_db.recurrence \in {"daily", "weekly", "monthly"}
         THEN IF \/ ~CronTimeAccepted(job_db.recurrence_time)
                 \/ (job_db.recurrence = "weekly" /\ job_db.day_of_week = <<>>)
              THEN [res |-> "raise", kind |-> NullStr, arg |-> Null]
              ELSE [res |-> "ok", kind |-> "cron", arg |-> CronPeriod]
         ELSE [res |-> "return", kind |-> NullStr, arg |-> Null]
    ELSE [res |-> "return", kind |-> NullStr, arg |-> Null]

\* trigger.get_next_fire_time(None, now) as add_job computes it
FirstFireTime(kind, arg, t) ==
    IF kind = "date" THEN arg
    ELSE IF kind = "interval" THEN t + arg
    ELSE ((t + arg - 1) \div arg) * arg

\* mutant of add_job: as with replace_existing=True, the job replaces the
\* one in the job store
add_job_replace_existing(trigs, j, job_db, t) ==
    LET b == BuildTrigger(job_db) IN
    IF b.res # "ok" THEN trigs
    ELSE [trigs EXCEPT ![j] =
            [live |-> TRUE, kind |-> b.kind, arg |-> b.arg,
             next_run_time |-> FirstFireTime(b.kind, b.arg, t),
             misfire_grace_time |-> job_db.misfire_grace_time]]

\* scheduler.add_job: ConflictingIdError when job_<id> is already in the
\* job store (replace_existing is not passed); the except clause of
\* schedule_job swallows it and nothing is registered
add_job(trigs, j, job_db, t) ==
    LET b == BuildTrigger(job_db) IN
    IF b.res # "ok" \/ trigs[j].live THEN trigs
    ELSE [trigs EXCEPT ![j] =
            [live |-> TRUE, kind |-> b.kind, arg |-> b.arg,
             next_run_time |-> FirstFireTime(b.kind, b.arg, t),
             misfire_grace_time |-> job_db.misfire_grace_time]]

\* scheduler.remove_job inside try/except: pass
remove_job(trigs, j) == [trigs EXCEPT ![j] = NoTrigger]

\* schedule_job: the store after its "Update next_run in database" block.
\* The block runs only when add_job returned and get_job finds the job.
schedule_job_store(st, trigs, j, job_db, t) ==
    LET b == BuildTrigger(job_db) IN
    IF b.res # "ok" \/ trigs[j].live THEN st
    ELSE [st EXCEPT ![j].next_run = FirstFireTime(b.kind, b.arg, t)]

\* the last fire time of a due trigger that is not later than t (coalesce)
LastDue(tr, t) ==
    IF tr.kind = "date" THEN tr.next_run_time
    ELSE tr.next_run_time + ((t - tr.next_run_time) \div tr.arg) * tr.arg

\* ------------------------------------------------------------------------
\* The executor: at most one instance per job (max_instances = 1)
\* ------------------------------------------------------------------------
Idle ==
    [st |-> "idle", run_time |-> Null, misfire_grace_time |-> Null,
     job_type |-> NullStr]

\* ------------------------------------------------------------------------
\* execute_job: the database update after subprocess.run returned
\* ------------------------------------------------------------------------
\* what subprocess.run can do: return with exit status 0 or non-zero, or
\* raise (Null: there is no result), which the except clause of execute_job
\* catches before anything is written
RunOutcomes == {0, 1, Null}

\* mutant of execute_job_store: the one-time job is disabled only when the
\* script succeeded
execute_job_store_on_success(st, j, job_type, t, rc) ==
    IF rc = Null \/ ~st[j].present THEN st
    ELSE IF job_type = "one_time" /\ rc = 0
         THEN [st EXCEPT ![j].last_run = t, ![j].enabled = FALSE]
         ELSE [st EXCEPT ![j].last_run = t]

\* job_type is the one of the job_db object handed to execute_job.  When the
\* row is gone, db_job is None and the AttributeError is caught: no change.
execute_job_store(st, j, job_type, t, rc) ==
    IF rc = Null \/ ~st[j].present THEN st
    ELSE IF job_type = "one_time"
         THEN [st EXCEPT ![j].last_run = t, ![j].enabled = FALSE]
         ELSE [st EXCEPT ![j].last_run = t]

execute_job_triggers(st, trigs, j, job_type, rc) ==
    IF rc # Null /\ st[j].present /\ job_type = "one_time"
    THEN remove_job(trigs, j)
    ELSE trigs

\* an exception is raised inside the try block of execute_job: by
\* subprocess.run, or by "db_job.last_run = ..." when db_job is None; the
\* except clause catches it and execute_job returns
execute_job_raises(st, j, rc) == rc = Null \/ ~st[j].present

\* refresh_job_list rebuilds the job table widget.  On the UI thread that
\* is an ordinary call.  Called from a pool worker it uses and creates
\* widgets outside the GUI thread, which the toolkit does not define: the
\* process goes on or aborts.  The result is whether the process goes on.
refresh_job_list(onUiThread) ==
    IF onUiThread THEN {TRUE} ELSE {TRUE, FALSE}

Bump(c, j) == [c EXCEPT ![j] = IF @ < MaxRuns THEN @ + 1 ELSE @]

\* ------------------------------------------------------------------------
\* Initial state: the scheduler is started and empty, the forms are as
\* constructed, the templates and fields tables are empty
\* ------------------------------------------------------------------------
InitFrom(rows) ==
    /\ now = BootTime
    /\ store \in [JobIds -> rows]
    /\ triggers = [j \in JobIds |-> NoTrigger]
    /\ pool = [j \in JobIds |-> Idle]
    /\ uiJob = 0
    /\ runs = [j \in JobIds |-> 0]
    /\ checkRuns = [j \in JobIds |-> 0]
    /\ returncode = Null
    /\ toggles = 0
    /\ toggledOff = {}
    /\ pass = 1
    /\ first = [live |-> {}, caught |-> {}, quiet |-> FALSE, at |-> Null]
    /\ boot = store
    /\ alive = TRUE
    /\ deletes = 0
    /\ deleteReply = [job |-> 0, reply |-> NullStr]
    /\ jobSaves = 0
    /\ saveJobArgs = [name |-> "", script |-> ""]
    /\ canvas_pixmap = NoPage
    /\ canvas_boxes = <<>>
    /\ canvas_scale_factor = 1
    /\ actual_page = NoPage
    /\ result_table = <<>>
    /\ templateSaves = 0
    /\ saveTemplateArgs = [text |-> <<>>, reply |-> NullStr]
    /\ extractions = 0
    /\ extractArgs = NoExtraction
    /\ weekly = NoWeekly
    /\ docks = <<>>
    /\ temp_files = {}
    /\ opens = 0
    /\ editorOp = [op |-> NullStr, reply |-> NullStr]
    /\ attach_list = <<>>
    /\ drafts = 0
    /\ draft = NoDraft

\* the templates and fields tables hold nothing, and OCRTrainerModule
\* .setup_ui has called load_templates
NoTemplates ==
    /\ templates = [t \in TemplateIds |-> NoTemplate]
    /\ fields = [f \in FieldIds |-> NoField]
    /\ template_combo = <<>>
    /\ defined = [t \in TemplateIds |-> <<>>]

\* the number of fields of the templates before the t-th of stored
RECURSIVE FieldsBefore(_, _)
FieldsBefore(stored, t) ==
    IF t = 1 THEN 0
    ELSE FieldsBefore(stored, t - 1) + Len(stored[t - 1].names)

\* the tables hold the templates of stored (name, reference dimensions and
\* field names of each), saved one after the other in an earlier run of
\* the program, and setup_ui has called load_templates
StoredTemplates(stored) ==
    /\ templates = [t \in TemplateIds |->
                       IF t \in 1..Len(stored)
                       THEN [present |-> TRUE, name |-> stored[t].name,
                             base_width |-> stored[t].base.width,
                             base_height |-> stored[t].base.height]
                       ELSE NoTemplate]
    /\ fields = [f \in FieldIds |->
                    LET owners ==
                          {t \in 1..Len(stored) :
                              f - FieldsBefore(stored, t)
                                  \in 1..Len(stored[t].names)}
                    IN
                    IF owners = {} THEN NoField
                    ELSE LET t == Min(owners)
                             i == f - FieldsBefore(stored, t)
                         IN [present |-> TRUE, template_id |-> t,
                             name |-> stored[t].names[i],
                             x |-> 2 * i, y |-> i, width |-> 4,
                             height |-> 1]]
    /\ template_combo = [t \in 1..Len(stored) |-> t]
    /\ defined = [t \in TemplateIds |->
                     IF t \in 1..Len(stored) THEN stored[t].names ELSE <<>>]

\* the template "b" of a page of 4 by 2 with the field "Q"
OneTemplate ==
    StoredTemplates(<<[name |-> <<"b">>,
                       base |-> [width |-> 4, height |-> 2],
                       names |-> <<<<"Q">>>>]>>)

\* SchedulerModule.__init__ has reached the loop of load_jobs_from_db
Startup ==
    /\ uiPc = "load"
    /\ uiTodo = {j \in JobIds : store[j].present}
    /\ checkNow = Null
    /\ sessions = {0}

\* the jobs table holds rows that save_job wrote
Init == InitFrom(Rows) /\ Startup /\ NoTemplates

\* the jobs table holds rows of any origin
InitAnyStore == InitFrom(AnyRows) /\ Startup /\ NoTemplates

\* ------------------------------------------------------------------------
\* The clock
\* ------------------------------------------------------------------------
Tick ==
    /\ alive
    /\ now < MaxTime
    /\ now' = now + 1
    /\ UNCHANGED <<store, triggers, pool, uiPc, uiJob, uiTodo, checkNow,
                   runs, checkRuns, returncode, toggles, toggledOff, pass,
                   first, boot,
                   sessions, alive, deletes, deleteReply>>
    /\ UNCHANGED <<jobFormVars, ocrVars, otherVars>>

\* ------------------------------------------------------------------------
\* UI thread: load_jobs_from_db
\* ------------------------------------------------------------------------
\* one iteration of "for job_db in jobs"; job_db is the row as queried
\* (its enabled flag and specification cannot change before its iteration:
\* nothing else touches a job that has no trigger yet)
load_jobs_from_db_step ==
    /\ alive
    /\ uiPc = "load"
    /\ uiTodo # {}
    /\ LET j == Min(uiTodo) IN
       /\ uiTodo' = uiTodo \ {j}
       /\ IF store[j].enabled
          THEN /\ triggers' = add_job(triggers, j, store[j], now)
               /\ store' = schedule_job_store(store, triggers, j, store[j], now)
          ELSE UNCHANGED <<triggers, store>>
    /\ UNCHANGED <<now, pool, uiPc, uiJob, checkNow, runs, checkRuns,
                   returncode, toggles, toggledOff, pass, first, boot,
                   sessions, alive, deletes, deleteReply>>
    /\ UNCHANGED <<jobFormVars, ocrVars, otherVars>>

\* the loop is over: load_jobs_from_db closes its session and refreshes the
\* table; check_missed_jobs opens its own session, takes 'now' and runs
\* its query
check_missed_jobs_query ==
    /\ alive
    /\ uiPc = "load"
    /\ uiTodo = {}
    /\ uiPc' = "check"
    /\ checkNow' = now
    /\ uiTodo' = {j \in JobIds : /\ store[j].present
                                 /\ store[j].enabled
                                 /\ store[j].next_run # Null}
    /\ UNCHANGED <<now, store, triggers, pool, uiJob, runs, checkRuns,
                   returncode, toggles, toggledOff, pass, first, boot,
                   sessions, alive, deletes, deleteReply>>
    /\ UNCHANGED <<jobFormVars, ocrVars, otherVars>>

\* one iteration of "for job_db in jobs" of check_missed_jobs; a missed job
\* within its grace time enters execute_job on the UI thread
check_missed_jobs_step ==
    /\ alive
    /\ uiPc = "check"
    /\ uiTodo # {}
    /\ LET j == Min(uiTodo) IN
       /\ uiTodo' = uiTodo \ {j}
       /\ IF /\ store[j].next_run < checkNow
             /\ checkNow - store[j].next_run <= store[j].misfire_grace_time
          THEN /\ uiPc' = "check_run"
               /\ uiJob' = j
               /\ runs' = Bump(runs, j)
               /\ checkRuns' = Bump(checkRuns, j)
          ELSE UNCHANGED <<uiPc, uiJob, runs, checkRuns>>
    /\ UNCHANGED <<now, store, triggers, pool, checkNow, returncode,
                   toggles, toggledOff, pass, first, boot,
                   sessions, alive, deletes, deleteReply>>
    /\ UNCHANGED <<jobFormVars, ocrVars, otherVars>>

\* subprocess.run returned on the UI thread; execute_job updates the row
check_missed_jobs_finish ==
    /\ alive
    /\ uiPc = "check_run"
    /\ \E rc \in RunOutcomes :
         /\ returncode' = rc
         /\ store' = execute_job_store(store, uiJob, store[uiJob].job_type,
                                       now, rc)
         /\ triggers' = execute_job_triggers(store, triggers, uiJob,
                                             store[uiJob].job_type, rc)
         /\ first' = IF pass = 1 /\ rc # Null
                     THEN [first EXCEPT !.caught = @ \cup {uiJob}]
                     ELSE first
         /\ alive' \in IF execute_job_raises(store, uiJob, rc)
                        THEN {TRUE}
                        ELSE refresh_job_list(TRUE)
    /\ uiPc' = "check"
    /\ uiJob' = 0
    /\ UNCHANGED <<now, pool, uiTodo, checkNow, runs, checkRuns,
                   toggles, toggledOff, pass, boot, sessions, deletes,
                   deleteReply>>
    /\ UNCHANGED <<jobFormVars, ocrVars, otherVars>>

\* check_missed_jobs returns and __init__ with it: the event loop runs
check_missed_jobs_done ==
    /\ alive
    /\ uiPc = "check"
    /\ uiTodo = {}
    /\ uiPc' = "idle"
    /\ sessions' = sessions \ {0}
    /\ UNCHANGED <<now, store, triggers, pool, uiJob, uiTodo, checkNow,
                   runs, checkRuns, returncode, toggles, toggledOff, pass,
                   first, boot, alive, deletes, deleteReply>>
    /\ UNCHANGED <<jobFormVars, ocrVars, otherVars>>

\* ------------------------------------------------------------------------
\* Scheduler thread: _process_jobs for one due job
\* ------------------------------------------------------------------------
\* The run is handed to the executor unless an instance of the job is still
\* running (MaxInstancesReachedError); the trigger moves to its next fire
\* time, a date trigger has none and is removed.
process_job(j) ==
    /\ alive
    /\ triggers[j].live
    /\ triggers[j].next_run_time <= now
    /\ LET tr == triggers[j]
           rt == LastDue(tr, now)
       IN /\ pool' = IF pool[j].st = "idle"
                     THEN [pool EXCEPT ![j] =
                             [st |-> "submitted", run_time |-> rt,
                              misfire_grace_time |-> tr.misfire_grace_time,
                              job_type |-> NullStr]]
                     ELSE pool
          /\ triggers' = IF tr.kind = "date"
                         THEN remove_job(triggers, j)
                         ELSE [triggers EXCEPT ![j].next_run_time = rt + tr.arg]
    /\ UNCHANGED <<now, store, uiPc, uiJob, uiTodo, checkNow, runs,
                   checkRuns, returncode, toggles, toggledOff, pass, first,
                   boot, sessions, alive, deletes, deleteReply>>
    /\ UNCHANGED <<jobFormVars, ocrVars, otherVars>>

\* ------------------------------------------------------------------------
\* Pool worker: run_job, the lambda of schedule_job, execute_job_by_id
\* ------------------------------------------------------------------------
\* A run later than its grace time is dropped as missed.  Otherwise
\* execute_job_by_id opens a session and loads the row; if the row exists
\* execute_job is called with it, else the session is closed again.
execute_job_by_id(j) ==
    /\ alive
    /\ pool[j].st = "submitted"
    /\ IF /\ now - pool[j].run_time <= pool[j].misfire_grace_time
          /\ store[j].present
       THEN /\ pool' = [pool EXCEPT ![j].st = "loaded",
                                    ![j].job_type = store[j].job_type]
            /\ sessions' = sessions \cup {j}
       ELSE /\ pool' = [pool EXCEPT ![j] = Idle]
            /\ UNCHANGED sessions
    /\ UNCHANGED <<now, store, triggers, uiPc, uiJob, uiTodo, checkNow,
                   runs, checkRuns, returncode, toggles, toggledOff, pass,
                   first, boot, alive, deletes, deleteReply>>
    /\ UNCHANGED <<jobFormVars, ocrVars, otherVars>>

\* execute_job in the worker: subprocess.run starts the script
execute_job_run(j) ==
    /\ alive
    /\ pool[j].st = "loaded"
    /\ pool' = [pool EXCEPT ![j].st = "script"]
    /\ runs' = Bump(runs, j)
    /\ UNCHANGED <<now, store, triggers, uiPc, uiJob, uiTodo, checkNow,
                   checkRuns, returncode, toggles, toggledOff, pass, first,
                   boot, sessions, alive, deletes, deleteReply>>
    /\ UNCHANGED <<jobFormVars, ocrVars, otherVars>>

\* subprocess.run returned in the worker; execute_job updates the row and
\* refreshes the table from the worker thread, then execute_job_by_id
\* closes its session
execute_job(j) ==
    /\ alive
    /\ pool[j].st = "script"
    /\ \E rc \in RunOutcomes :
         /\ returncode' = rc
         /\ store' = execute_job_store(store, j, pool[j].job_type, now, rc)
         /\ triggers' = execute_job_triggers(store, triggers, j,
                                             pool[j].job_type, rc)
         /\ alive' \in IF execute_job_raises(store, j, rc)
                        THEN {TRUE}
                        ELSE refresh_job_list(FALSE)
    /\ pool' = [pool EXCEPT ![j] = Idle]
    /\ sessions' = sessions \ {j}
    /\ UNCHANGED <<now, uiPc, uiJob, uiTodo, checkNow, runs, checkRuns,
                   toggles, toggledOff, pass, first, boot, deletes,
                   deleteReply>>
    /\ UNCHANGED <<jobFormVars, ocrVars, otherVars>>

\* ------------------------------------------------------------------------
\* UI thread: toggle_job
\* ------------------------------------------------------------------------
\* job.enabled = not job.enabled; session.commit()
toggle_job_commit(j) ==
    /\ alive
    /\ uiPc = "idle"
    /\ toggles < MaxToggles
    /\ toggles' = toggles + 1
    /\ store[j].present
    /\ store' = [store EXCEPT ![j].enabled = ~@]
    /\ uiPc' = "toggle"
    /\ uiJob' = j
    /\ toggledOff' = IF store[j].enabled THEN toggledOff \cup {j}
                                        ELSE toggledOff \ {j}
    /\ sessions' = sessions \cup {0}
    /\ UNCHANGED <<now, triggers, pool, uiTodo, checkNow, runs, checkRuns,
                   returncode, pass, first, boot, alive, deletes,
                   deleteReply>>
    /\ UNCHANGED <<jobFormVars, ocrVars, otherVars>>

\* mutant of toggle_job_trigger: the trigger of a disabled job is left in
\* the scheduler
toggle_job_trigger_keeps_trigger ==
    /\ alive
    /\ uiPc = "toggle"
    /\ IF store[uiJob].enabled
       THEN /\ triggers' = add_job(triggers, uiJob, store[uiJob], now)
            /\ store' = schedule_job_store(store, triggers, uiJob,
                                           store[uiJob], now)
       ELSE UNCHANGED <<triggers, store>>
    /\ uiPc' = "idle"
    /\ uiJob' = 0
    /\ sessions' = sessions \ {0}
    /\ UNCHANGED <<now, pool, uiTodo, checkNow, runs, checkRuns,
                   returncode, toggles, toggledOff, pass, first, boot,
                   alive, deletes, deleteReply>>
    /\ UNCHANGED <<jobFormVars, ocrVars, otherVars>>

\* mutant of toggle_job_trigger: enabling a job registers its trigger
\* without the record's misfire_grace_time (the scheduler's default of one
\* second, less than a tick, applies)
toggle_job_trigger_default_grace ==
    /\ alive
    /\ uiPc = "toggle"
    /\ IF store[uiJob].enabled
       THEN /\ triggers' =
                  add_job(triggers, uiJob,
                          [store[uiJob] EXCEPT !.misfire_grace_time = 0], now)
            /\ store' = schedule_job_store(store, triggers, uiJob,
                                           store[uiJob], now)
       ELSE /\ triggers' = remove_job(triggers, uiJob)
            /\ UNCHANGED store
    /\ uiPc' = "idle"
    /\ uiJob' = 0
    /\ sessions' = sessions \ {0}
    /\ UNCHANGED <<now, pool, uiTodo, checkNow, runs, checkRuns,
                   returncode, toggles, toggledOff, pass, first, boot,
                   alive, deletes, deleteReply>>
    /\ UNCHANGED <<jobFormVars, ocrVars, otherVars>>

\* "if job.enabled" reloads the row (the commit expired it), then the
\* trigger is registered or removed
toggle_job_trigger ==
    /\ alive
    /\ uiPc = "toggle"
    /\ IF store[uiJob].enabled
       THEN /\ triggers' = add_job(triggers, uiJob, store[uiJob], now)
            /\ store' = schedule_job_store(store, triggers, uiJob,
                                           store[uiJob], now)
       ELSE /\ triggers' = remove_job(triggers, uiJob)
            /\ UNCHANGED store
    /\ uiPc' = "idle"
    /\ uiJob' = 0
    /\ sessions' = sessions \ {0}
    /\ UNCHANGED <<now, pool, uiTodo, checkNow, runs, checkRuns,
                   returncode, toggles, toggledOff, pass, first, boot,
                   alive, deletes, deleteReply>>
    /\ UNCHANGED <<jobFormVars, ocrVars, otherVars>>

\* ------------------------------------------------------------------------
\* UI thread: delete_job
\* ------------------------------------------------------------------------
\* the answers to QMessageBox.question(..., Yes | No)
Replies == {"Yes", "No"}

\* mutant of delete_job: the row is deleted and the trigger stays in the
\* scheduler
delete_job_keeps_trigger(j) ==
    /\ alive
    /\ uiPc = "idle"
    /\ deletes < MaxDeletes
    /\ store[j].present
    /\ deletes' = deletes + 1
    /\ \E reply \in Replies :
         /\ deleteReply' = [job |-> j, reply |-> reply]
         /\ IF reply = "Yes"
            THEN /\ store' = [store EXCEPT ![j] = NoJob]
                 /\ UNCHANGED triggers
            ELSE UNCHANGED <<triggers, store>>
    /\ UNCHANGED <<now, pool, uiPc, uiJob, uiTodo, checkNow, runs,
                   checkRuns, returncode, toggles, toggledOff, pass, first,
                   boot, sessions, alive>>
    /\ UNCHANGED <<jobFormVars, ocrVars, otherVars>>

\* the button of a listed job is pressed and the question answered; on Yes
\* the trigger is removed from the scheduler and the row deleted, within a
\* session that is closed before delete_job returns
delete_job(j) ==
    /\ alive
    /\ uiPc = "idle"
    /\ deletes < MaxDeletes
    /\ store[j].present
    /\ deletes' = deletes + 1
    /\ \E reply \in Replies :
         /\ deleteReply' = [job |-> j, reply |-> reply]
         /\ IF reply = "Yes"
            THEN /\ triggers' = remove_job(triggers, j)
                 /\ store' = [store EXCEPT ![j] = NoJob]
            ELSE UNCHANGED <<triggers, store>>
    /\ UNCHANGED <<now, pool, uiPc, uiJob, uiTodo, checkNow, runs,
                   checkRuns, returncode, toggles, toggledOff, pass, first,
                   boot, sessions, alive>>
    /\ UNCHANGED <<jobFormVars, ocrVars, otherVars>>

\* ------------------------------------------------------------------------
\* UI thread: save_job
\* ------------------------------------------------------------------------
Max(S) == CHOOSE x \in S : \A y \in S : x >= y

\* the elements of a set of numbers in ascending order
RECURSIVE AscendingSeq(_)
AscendingSeq(S) ==
    IF S = {} THEN <<>> ELSE <<Min(S)>> \o AscendingSeq(S \ {Min(S)})

\* the greatest id in a table, 0 when it is empty; an INTEGER PRIMARY KEY
\* column gives a new row the greatest id plus one
MaxId(table) ==
    LET used == {i \in DOMAIN table : table[i].present} IN
    IF used = {} THEN 0 ELSE Max(used)

\* str.lower() on the texts of recurrence_combo
lower(s) ==
    CASE s = "Interval" -> "interval"
      [] s = "Daily" -> "daily"
      [] s = "Weekly" -> "weekly"
      [] s = "Monthly" -> "monthly"
      [] OTHER -> s

\* the multiplier table of save_job
Multiplier(interval_unit) ==
    CASE interval_unit = "Seconds" -> 1
      [] interval_unit = "Minutes" -> 60
      [] interval_unit = "Hours" -> 3600

\* str(cb.property("day_index"))
DayStr(day_index) ==
    CASE day_index = 0 -> <<"0">> [] day_index = 1 -> <<"1">>
      [] day_index = 2 -> <<"2">> [] day_index = 3 -> <<"3">>
      [] day_index = 4 -> <<"4">> [] day_index = 5 -> <<"5">>
      [] day_index = 6 -> <<"6">> [] day_index = 7 -> <<"7">>

\* ",".join(selected_days)
RECURSIVE join(_)
join(selected_days) ==
    IF selected_days = <<>> THEN <<>>
    ELSE IF Len(selected_days) = 1 THEN selected_days[1]
    ELSE selected_days[1] \o <<",">> \o join(Tail(selected_days))

\* what the Add Job dialog hands to save_job; day_checks is the set of the
\* day_index values of the checked boxes
JobForm(name, script, is_onetime, rec_type, day_checks) ==
    [name |-> name, script |-> script, is_onetime |-> is_onetime,
     run_datetime |-> Ahead, rec_type |-> rec_type,
     interval_val |-> IntervalLen, interval_unit |-> "Seconds",
     rec_time |-> <<"0", "9", ":", "0", "0">>, day_checks |-> day_checks,
     grace_min |-> Grace]

JobForms ==
    {JobForm("", "run.bat", TRUE, "Daily", {}),
     JobForm("job", "", TRUE, "Daily", {}),
     JobForm("job", "run.bat", TRUE, "Daily", {}),
     JobForm("job", "run.bat", FALSE, "Interval", {}),
     JobForm("job", "run.bat", FALSE, "Weekly", {0, 2})}

\* the Job object that save_job builds
JobRow(form) ==
    LET job_db == [NoJob EXCEPT !.present = TRUE, !.enabled = TRUE,
                                !.misfire_grace_time = form.grace_min * 60]
        selected_days ==
            LET days == AscendingSeq(form.day_checks) IN
            [i \in 1..Len(days) |-> DayStr(days[i])]
    IN
    IF form.is_onetime
    THEN [job_db EXCEPT !.job_type = "one_time",
                        !.run_date = form.run_datetime,
                        !.next_run = form.run_datetime]
    ELSE IF form.rec_type = "Interval"
    THEN [job_db EXCEPT !.job_type = "recurring",
                        !.recurrence = lower(form.rec_type),
                        !.interval_seconds =
                            form.interval_val * Multiplier(form.interval_unit)]
    ELSE IF form.rec_type = "Weekly"
    THEN [job_db EXCEPT !.job_type = "recurring",
                        !.recurrence = lower(form.rec_type),
                        !.recurrence_time = form.rec_time,
                        !.day_of_week = join(selected_days)]
    ELSE [job_db EXCEPT !.job_type = "recurring",
                        !.recurrence = lower(form.rec_type),
                        !.recurrence_time = form.rec_time]

\* mutant of save_job_valid: only the name is required
save_job_valid_name_only(name, script) == name # ""

\* "if not name or not script" does not hold
save_job_valid(name, script) == name # "" /\ script # ""

\* the dialog was accepted: the row is added and committed, then
\* schedule_job registers its trigger and writes next_run
save_job(form) ==
    /\ alive
    /\ uiPc = "idle"
    /\ jobSaves < MaxJobSaves
    /\ MaxId(store) + 1 \in JobIds
    /\ jobSaves' = jobSaves + 1
    /\ saveJobArgs' = [name |-> form.name, script |-> form.script]
    /\ IF ~save_job_valid(form.name, form.script)
       THEN UNCHANGED <<store, triggers>>
       ELSE LET j == MaxId(store) + 1
                job_db == JobRow(form)
                added == [store EXCEPT ![j] = job_db]
            IN /\ triggers' = add_job(triggers, j, job_db, now)
               /\ store' = schedule_job_store(added, triggers, j, job_db, now)
    /\ UNCHANGED <<now, pool, uiPc, uiJob, uiTodo, checkNow, runs,
                   checkRuns, returncode, toggles, toggledOff, pass, first,
                   boot, sessions, alive, deletes, deleteReply>>
    /\ UNCHANGED <<ocrVars, otherVars>>

\* ------------------------------------------------------------------------
\* A weekly job on the calendar
\* ------------------------------------------------------------------------
\* the labels of the weekday boxes of add_job_dialog
day_names ==
    <<"Monday", "Tuesday", "Wednesday", "Thursday", "Friday", "Saturday",
      "Sunday">>

\* mutant of day_index: the boxes are numbered from one
day_index_from_one(day) == CHOOSE i \in 1..7 : day_names[i] = day

\* "for i, day in enumerate(day_names): cb.setProperty("day_index", i)"
day_index(day) == (CHOOSE i \in 1..7 : day_names[i] = day) - 1

\* minutes in a day; the clock of this section counts minutes from a
\* Monday 00:00
Day == 1440

\* datetime.weekday(): Monday is 0
weekday(t) == (t \div Day) % 7

\* the day_of_week field of CronTrigger for a text of numbers separated by
\* commas: the set of weekday() values it lets through
WeekdayField(text) ==
    LET exprs == split(text, ",") IN
    {int(exprs[i]) : i \in 1..Len(exprs)}

\* CronTrigger raises no ValueError for the text: no expression is empty
\* or not a number, and every number is one of 0..6
WeekdayFieldAccepted(text) == WeekdayField(text) \subseteq 0..6

\* CronTrigger(day_of_week, hour, minute).get_next_fire_time(None, t): the
\* first minute from t on that lies on one of the weekdays at hour:minute
CronNextFire(days, hour, minute, t) ==
    Min({u \in {d * Day + hour * 60 + minute :
                  d \in (t \div Day)..(t \div Day + 7)} :
            u >= t /\ weekday(u) \in days})

\* the clock readings looked at: every day of a week at 08:00, 09:00 and
\* 10:00
WeekTimes == {d * Day + h * 60 : d \in 0..6, h \in {8, 9, 10}}

\* save_job for a weekly job with some weekday boxes checked, followed by
\* schedule_job at the clock reading t: what is persisted as day_of_week
\* and the next fire time of the trigger registered (Null when none is);
\* one job is looked at
weekly_job ==
    /\ alive
    /\ uiPc = "idle"
    /\ weekly = NoWeekly
    /\ \E checked \in SUBSET {day_names[i] : i \in 1..7}, t \in WeekTimes :
         LET form == JobForm("job", "run.bat", FALSE, "Weekly",
                             {day_index(day) : day \in checked})
             job_db == JobRow(form)
             b == BuildTrigger(job_db)
             days == WeekdayField(job_db.day_of_week)
             hm == split(job_db.recurrence_time, ":")
         IN weekly' =
              [checked |-> checked,
               day_of_week |-> job_db.day_of_week,
               now |-> t,
               next_run_time |->
                   IF \/ b.res # "ok"
                      \/ ~WeekdayFieldAccepted(job_db.day_of_week)
                   THEN Null
                   ELSE CronNextFire(days, int(hm[1]), int(hm[2]), t)]
    /\ UNCHANGED <<schedVars, jobFormVars, ocrVars, editorVars>>

\* ------------------------------------------------------------------------
\* Queries on the templates and fields tables
\* ------------------------------------------------------------------------
\* mutant of find_template: the name is never found
find_template_never(tpls, name) == 0

\* session.query(Template).filter(Template.name == name).first(): the id of
\* the row, 0 for None
find_template(tpls, name) ==
    LET found == {t \in TemplateIds : tpls[t].present /\ tpls[t].name = name}
    IN IF found = {} THEN 0 ELSE Min(found)

\* mutant of delete_template: the fields of the template are left behind
delete_template_no_cascade(tpls, flds, t) ==
    [templates |-> [tpls EXCEPT ![t] = NoTemplate], fields |-> flds]

\* session.delete(existing); session.commit(): the relationship cascades
\* the delete to the fields of the template
delete_template(tpls, flds, t) ==
    [templates |-> [tpls EXCEPT ![t] = NoTemplate],
     fields |-> [f \in FieldIds |->
                    IF flds[f].present /\ flds[f].template_id = t
                    THEN NoField ELSE flds[f]]]

\* mutant of template_fields: the rows come newest first
template_fields_newest_first(flds, t) ==
    LET ids == AscendingSeq({f \in FieldIds : /\ flds[f].present
                                              /\ flds[f].template_id = t})
    IN [i \in 1..Len(ids) |-> flds[ids[Len(ids) + 1 - i]]]

\* template.fields: the rows of the fields table with this template_id, in
\* the order of the table (by id)
template_fields(flds, t) ==
    LET ids == AscendingSeq({f \in FieldIds : /\ flds[f].present
                                              /\ flds[f].template_id = t})
    IN [i \in 1..Len(ids) |-> flds[ids[i]]]

\* ------------------------------------------------------------------------
\* Text handling of the OCR trainer
\* ------------------------------------------------------------------------
\* str.strip(): white space is removed at both ends
IsSpace(c) == c \in {" ", "\n", "\t"}

RECURSIVE lstrip(_)
lstrip(s) == IF s # <<>> /\ IsSpace(Head(s)) THEN lstrip(Tail(s)) ELSE s

RECURSIVE rstrip(_)
rstrip(s) ==
    IF s # <<>> /\ IsSpace(s[Len(s)])
    THEN rstrip(SubSeq(s, 1, Len(s) - 1))
    ELSE s

strip(s) == rstrip(lstrip(s))

\* the lower-case form of the letters that occur in the texts below
LowerChar(c) ==
    CASE c = "N" -> "n" [] c = "O" -> "o" [] c = "Q" -> "q" [] c = "V" -> "v"
      [] OTHER -> c

\* re.IGNORECASE compares the texts in one case
IgnoreCase(s) == [i \in 1..Len(s) |-> LowerChar(s[i])]

\* the number of characters at the start of s that [:\-\s]* consumes
RECURSIVE SeparatorRun(_)
SeparatorRun(s) ==
    IF s # <<>> /\ (Head(s) \in {":", "-"} \/ IsSpace(Head(s)))
    THEN 1 + SeparatorRun(Tail(s))
    ELSE 0

\* mutant of label_match: the name is looked for at every position
label_match_unanchored(name, text) ==
    LET at == {p \in 1..Len(text) :
                  /\ p + Len(name) - 1 <= Len(text)
                  /\ IgnoreCase(SubSeq(text, p, p + Len(name) - 1))
                         = IgnoreCase(name)}
    IN IF at = {} THEN Null
       ELSE LET end == Min(at) + Len(name) - 1 IN
            end + SeparatorRun(SubSeq(text, end + 1, Len(text)))

\* re.search(pattern, text, re.IGNORECASE) for the pattern
\* "^" + re.escape(field.name) + "[:\-\s]*": the end of the match, Null
\* when the text does not start with the name
label_match(name, text) ==
    IF /\ Len(text) >= Len(name)
       /\ IgnoreCase(SubSeq(text, 1, Len(name))) = IgnoreCase(name)
    THEN Len(name) + SeparatorRun(SubSeq(text, Len(name) + 1, Len(text)))
    ELSE Null

\* the "smart extraction" of run_extraction
strip_label(name, text) ==
    LET end == label_match(name, text) IN
    IF end = Null THEN text
    ELSE LET cleaned_text == strip(SubSeq(text, end + 1, Len(text))) IN
         IF cleaned_text # <<>> THEN cleaned_text ELSE text

\* page.get_text("text", clip=rect).strip(), and page.get_textbox(rect)
\* .strip() when that is empty
read_text(read) ==
    LET text == strip(read.clip) IN
    IF text # <<>> THEN text ELSE strip(read.textbox)

\* ------------------------------------------------------------------------
\* Inputs of the OCR trainer
\* ------------------------------------------------------------------------
\* the first page of a PDF, by its dimensions
Pages == {[width |-> 4, height |-> 2]}

\* how upload_sample can go: the file dialog is cancelled; fitz.open or
\* load_page raises; rendering the page raises after the page dimensions
\* were stored; all of it succeeds
UploadOutcomes == {"cancel", "open_fails", "render_fails", "ok"}

\* the texts typed into the template name field
TypedNames == {<<" ">>, <<"a">>, <<" ", "a">>, <<"b">>}

\* the texts entered in the "Field Name" dialog; the empty one also stands
\* for a cancelled dialog
TypedFieldNames == {<<>>, <<"N">>, <<"Q">>}

\* the rectangle dragged on the canvas, in display coordinates
DraggedRects == {[x |-> 4, y |-> 2, width |-> 8, height |-> 2]}

\* what the document gives for the rectangle of one field: the clipped text
\* and the text of the text-box read
Reads ==
    {[clip |-> <<"N", ":", " ", "v">>, textbox |-> <<>>],
     [clip |-> <<" ">>, textbox |-> <<"x", " ", "N">>]}

\* ------------------------------------------------------------------------
\* UI thread: the OCR trainer
\* ------------------------------------------------------------------------
\* upload_sample of a PDF whose first page is one of pages; set_image
\* replaces the pixmap, drops the boxes and sets the scale factor of the 2x
\* rendering
upload_sample(pages) ==
    /\ alive
    /\ uiPc = "idle"
    /\ \E outcome \in UploadOutcomes, page \in pages :
         /\ actual_page' = IF outcome \in {"render_fails", "ok"}
                           THEN page ELSE actual_page
         /\ IF outcome = "ok"
            THEN /\ canvas_pixmap' = page
                 /\ canvas_boxes' = <<>>
                 /\ canvas_scale_factor' = 2
            ELSE UNCHANGED <<canvas_pixmap, canvas_boxes,
                             canvas_scale_factor>>
    /\ UNCHANGED <<templates, fields, template_combo, result_table,
                   templateSaves, saveTemplateArgs, defined, extractions,
                   extractArgs>>
    /\ UNCHANGED <<schedVars, jobFormVars, otherVars>>

\* CanvasWidget.mouseReleaseEvent after a drag (a drag starts only when a
\* pixmap is shown): the field name is asked for and the box appended
mouseReleaseEvent ==
    /\ alive
    /\ uiPc = "idle"
    /\ canvas_pixmap # NoPage
    /\ Len(canvas_boxes) + 1 \in BoxIndexes
    /\ \E current_rect \in DraggedRects, name \in TypedFieldNames :
         canvas_boxes' = IF name # <<>>
                         THEN Append(canvas_boxes,
                                     [rect |-> current_rect, name |-> name])
                         ELSE canvas_boxes
    /\ UNCHANGED <<templates, fields, canvas_pixmap, canvas_scale_factor,
                   actual_page, template_combo, result_table, templateSaves,
                   saveTemplateArgs, defined, extractions, extractArgs>>
    /\ UNCHANGED <<schedVars, jobFormVars, otherVars>>

\* mutant of save_template_valid: only the name is required
save_template_valid_name_only(name, boxes) == name # <<>>

\* "if not name or not self.canvas.boxes" does not hold
save_template_valid(name, boxes) == name # <<>> /\ boxes # <<>>

\* the Field row that save_template adds for a box: the display coordinates
\* divided by the scale factor
field_of_box(t, box, scale_factor) ==
    [present |-> TRUE, template_id |-> t, name |-> box.name,
     x |-> box.rect.x \div scale_factor,
     y |-> box.rect.y \div scale_factor,
     width |-> box.rect.width \div scale_factor,
     height |-> box.rect.height \div scale_factor]

\* load_templates: the combo box lists the templates in table order
load_templates(tpls) == AscendingSeq({t \in TemplateIds : tpls[t].present})

\* save_template with the text of the name field; reply is the answer to
\* the "Template Exists" question, asked when the name is taken
save_template ==
    /\ alive
    /\ uiPc = "idle"
    /\ templateSaves < MaxTemplateSaves
    /\ templateSaves' = templateSaves + 1
    /\ \E text \in TypedNames, reply \in Replies :
         LET name == strip(text)
             valid == save_template_valid(name, canvas_boxes)
             existing == find_template(templates, name)
         IN
         /\ saveTemplateArgs' =
                [text |-> text,
                 reply |-> IF valid /\ existing # 0 THEN reply ELSE NullStr]
         /\ IF ~valid \/ (existing # 0 /\ reply = "No")
            THEN UNCHANGED <<templates, fields, template_combo, defined>>
            ELSE LET kept == IF existing # 0
                             THEN delete_template(templates, fields, existing)
                             ELSE [templates |-> templates,
                                   fields |-> fields]
                     t == MaxId(kept.templates) + 1
                     f0 == MaxId(kept.fields)
                     n == Len(canvas_boxes)
                     saved ==
                         [kept.templates EXCEPT ![t] =
                             [present |-> TRUE, name |-> name,
                              base_width |-> actual_page.width,
                              base_height |-> actual_page.height]]
                 IN /\ templates' = saved
                    /\ fields' =
                         [f \in FieldIds |->
                             IF f \in (f0 + 1)..(f0 + n)
                             THEN field_of_box(t, canvas_boxes[f - f0],
                                               canvas_scale_factor)
                             ELSE kept.fields[f]]
                    /\ template_combo' = load_templates(saved)
                    /\ defined' =
                         [d \in TemplateIds |->
                             IF d = t
                             THEN [i \in 1..n |-> canvas_boxes[i].name]
                             ELSE IF d = existing THEN <<>>
                             ELSE defined[d]]
    /\ UNCHANGED <<canvas_pixmap, canvas_boxes, canvas_scale_factor,
                   actual_page, result_table, extractions, extractArgs>>
    /\ UNCHANGED <<schedVars, jobFormVars, otherVars>>

\* the documents handed to run_extraction: unreadable, or readable with the
\* dimensions of the first page
DocumentsOf(pages) ==
    {[readable |-> FALSE, page |-> NoPage]}
        \cup {[readable |-> TRUE, page |-> p] : p \in pages}

Documents == DocumentsOf(Pages)

\* a number as the quotient of two integers: the coordinates of
\* run_extraction are products with page_rect.width / template.base_width
Quotient(n, d) == [num |-> n, den |-> d]

\* q - k and q + k
Minus(q, k) == [num |-> q.num - k * q.den, den |-> q.den]
Plus(q, k) == [num |-> q.num + k * q.den, den |-> q.den]

\* mutant of field_rect: the rectangle is not padded
field_rect_no_padding(field, page, template) ==
    [x0 |-> Quotient(field.x * page.width, template.base_width),
     y0 |-> Quotient(field.y * page.height, template.base_height),
     x1 |-> Quotient((field.x + field.width) * page.width,
                     template.base_width),
     y1 |-> Quotient((field.y + field.height) * page.height,
                     template.base_height)]

\* fitz.Rect(x0 - padding, y0 - padding, x1 + padding, y1 + padding) with
\* scale_x = page_rect.width / template.base_width and
\* scale_y = page_rect.height / template.base_height
field_rect(field, page, template) ==
    LET padding == 2 IN
    [x0 |-> Minus(Quotient(field.x * page.width, template.base_width),
                  padding),
     y0 |-> Minus(Quotient(field.y * page.height, template.base_height),
                  padding),
     x1 |-> Plus(Quotient((field.x + field.width) * page.width,
                          template.base_width), padding),
     y1 |-> Plus(Quotient((field.y + field.height) * page.height,
                          template.base_height), padding)]

\* mutant of ZeroDivision: only the width is looked at
ZeroDivision_width_only(template) == template.base_width = 0

\* the divisions that give scale_x and scale_y raise ZeroDivisionError
ZeroDivision(template) ==
    template.base_width = 0 \/ template.base_height = 0

\* run_extraction with the template selected in the combo box (the first
\* one unless the user picks another) and a document of docs; cancelled
\* says that the file dialog was closed without a path; reads gives what
\* the document yields for the rectangle of each field; calls is the
\* number of calls explored
run_extraction(docs, texts, calls) ==
    /\ alive
    /\ uiPc = "idle"
    /\ extractions < calls
    /\ extractions' = extractions + 1
    /\ \E cancelled \in BOOLEAN :
         IF template_combo = <<>> \/ cancelled
         THEN /\ extractArgs' = NoExtraction
              /\ UNCHANGED result_table
         ELSE \E i \in 1..Len(template_combo), doc \in docs :
                LET template_id == template_combo[i]
                    template == templates[template_id]
                    flds == template_fields(fields, template_id)
                IN
                IF \/ ~doc.readable
                   \/ ~template.present
                   \/ ZeroDivision(template)
                THEN /\ extractArgs' = [template_id |-> template_id,
                                        readable |-> doc.readable,
                                        page |-> doc.page, read |-> <<>>,
                                        critical |-> TRUE]
                     /\ UNCHANGED result_table
                ELSE \E reads \in [1..Len(flds) -> texts] :
                       /\ extractArgs' =
                            [template_id |-> template_id,
                             readable |-> doc.readable,
                             page |-> doc.page,
                             read |->
                               [r \in 1..Len(flds) |->
                                  [rect |-> field_rect(flds[r], doc.page,
                                                       template),
                                   text |-> read_text(reads[r])]],
                             critical |-> FALSE]
                       /\ result_table' =
                            [r \in 1..Len(flds) |->
                               [field |-> flds[r].name,
                                value |-> strip_label(flds[r].name,
                                              read_text(reads[r]))]]
    /\ UNCHANGED <<templates, fields, canvas_pixmap, canvas_boxes,
                   canvas_scale_factor, actual_page, template_combo,
                   templateSaves, saveTemplateArgs, defined>>
    /\ UNCHANGED <<schedVars, jobFormVars, otherVars>>

\* ------------------------------------------------------------------------
\* UI thread: the PDF editor
\* ------------------------------------------------------------------------
\* the files chosen in the "Open File" dialog
Paths ==
    {<<"d", "/", "a", ".", "P", "D", "F">>,
     <<"d", "/", "b", ".", "d", "o", "c", "x">>}

\* str.lower() on the letters that occur in the paths
PathLowerChar(c) ==
    CASE c = "P" -> "p" [] c = "D" -> "d" [] c = "F" -> "f" [] OTHER -> c

str_lower(s) == [i \in 1..Len(s) |-> PathLowerChar(s[i])]

\* str.endswith(suffix)
endswith(s, suffix) ==
    /\ Len(s) >= Len(suffix)
    /\ SubSeq(s, Len(s) - Len(suffix) + 1, Len(s)) = suffix

\* os.path.basename: what follows the last separator
RECURSIVE basename(_)
basename(path) ==
    IF \E i \in 1..Len(path) : path[i] = "/"
    THEN basename(Tail(path))
    ELSE path

\* the suffixes of the Office files that open_pdf converts
OfficeSuffixes ==
    {<<".", "p", "p", "t", "x">>, <<".", "x", "l", "s", "x">>,
     <<".", "d", "o", "c", "x">>}

PdfSuffix == <<".", "p", "d", "f">>

\* what open_pdf can meet: the conversion returns no path, fitz.open
\* raises, or the tab is created
OpenOutcomes == {"conversion_fails", "open_fails", "ok"}

\* the sequence without its i-th element (list.remove of that element)
RemoveAt(seq, i) == SubSeq(seq, 1, i - 1) \o SubSeq(seq, i + 1, Len(seq))

\* PDFTab.cleanup: the files in temp_dir after it; removed says whether
\* os.remove succeeded (its exception is caught and printed)
cleanup(tab, files, removed) ==
    IF tab.is_temp /\ tab.temp_path # 0 /\ tab.temp_path \in files /\ removed
    THEN files \ {tab.temp_path}
    ELSE files

\* open_pdf: an Office file is converted and moved to a new file in
\* temp_dir (uuid4 names differ from call to call), the document is opened
\* and a dock titled with the base name of the chosen file is appended
open_pdf ==
    /\ alive
    /\ uiPc = "idle"
    /\ opens < MaxOpens
    /\ \E path \in Paths, outcome \in OpenOutcomes :
         LET office == \E suffix \in OfficeSuffixes :
                           endswith(str_lower(path), suffix)
             id == opens + 1
             dock == [title |-> basename(path), doc |-> id,
                      is_temp |-> office,
                      temp_path |-> IF office THEN id ELSE 0]
         IN /\ office \/ outcome # "conversion_fails"
            /\ temp_files' = IF office /\ outcome # "conversion_fails"
                             THEN temp_files \cup {id}
                             ELSE temp_files
            /\ docks' = IF outcome = "ok" THEN Append(docks, dock) ELSE docks
            /\ editorOp' = [op |-> "open_pdf", reply |-> outcome]
    /\ opens' = opens + 1
    /\ UNCHANGED <<attach_list, drafts, draft>>
    /\ UNCHANGED <<schedVars, jobFormVars, ocrVars, weekly>>

\* close_tab of one of the docks: cleanup, then the "Close" question; on
\* Cancel the handler returns, otherwise the dock is removed (save_pdf on
\* Yes writes the document to a path the user chooses)
close_tab ==
    /\ alive
    /\ uiPc = "idle"
    /\ \E i \in 1..Len(docks), reply \in {"Yes", "No", "Cancel"},
          removed \in BOOLEAN :
         /\ temp_files' = cleanup(docks[i], temp_files, removed)
         /\ docks' = IF reply = "Cancel" THEN docks ELSE RemoveAt(docks, i)
         /\ editorOp' = [op |-> "close_tab", reply |-> reply]
    /\ UNCHANGED <<opens, attach_list, drafts, draft>>
    /\ UNCHANGED <<schedVars, jobFormVars, ocrVars, weekly>>

\* close_all: on Yes every dock is removed and the list cleared
close_all ==
    /\ alive
    /\ uiPc = "idle"
    /\ \E reply \in Replies :
         /\ docks' = IF reply = "Yes" THEN <<>> ELSE docks
         /\ editorOp' = [op |-> "close_all", reply |-> reply]
    /\ UNCHANGED <<temp_files, opens, attach_list, drafts, draft>>
    /\ UNCHANGED <<schedVars, jobFormVars, ocrVars, weekly>>

\* ------------------------------------------------------------------------
\* UI thread: the mail drafter
\* ------------------------------------------------------------------------
\* the texts of the subject field
Subjects == {<<" ">>, <<"s">>}

\* refresh_attachments: one unchecked item per dock, with the title as
\* text and the index of the dock as data
refresh_attachments ==
    /\ alive
    /\ uiPc = "idle"
    /\ attach_list' = [i \in 1..Len(docks) |->
                          [text |-> docks[i].title,
                           checkState |-> "Unchecked",
                           data |-> i - 1,
                           tab |-> docks[i].doc]]
    /\ UNCHANGED <<docks, temp_files, opens, editorOp, drafts, draft>>
    /\ UNCHANGED <<schedVars, jobFormVars, ocrVars, weekly>>

\* the user clicks the check box of an item (ItemIsUserCheckable)
check_item ==
    /\ alive
    /\ uiPc = "idle"
    /\ \E i \in 1..Len(attach_list) :
         attach_list' =
             [attach_list EXCEPT ![i].checkState =
                  IF @ = "Checked" THEN "Unchecked" ELSE "Checked"]
    /\ UNCHANGED <<docks, temp_files, opens, editorOp, drafts, draft>>
    /\ UNCHANGED <<schedVars, jobFormVars, ocrVars, weekly>>

\* the dock that generate_draft takes for an item: the one at the stored
\* index of the present list, 0 when the index is out of range
dock_of(item, dock_list) ==
    IF 0 <= item.data /\ item.data < Len(dock_list)
    THEN item.data + 1
    ELSE 0

\* the name under which a dock is saved
attachment_name(title) ==
    IF endswith(str_lower(title), PdfSuffix) THEN title
    ELSE title \o PdfSuffix

\* the loop of generate_draft over the items from the i-th on: the
\* attachments collected and the files written to the folder (a later
\* save to the same path replaces the file)
RECURSIVE SaveAttachments(_, _, _, _)
SaveAttachments(items, dock_list, i, acc) ==
    IF i > Len(items) THEN acc
    ELSE LET item == items[i]
             k == dock_of(item, dock_list)
         IN IF item.checkState = "Checked" /\ k # 0
            THEN LET save_path == attachment_name(dock_list[k].title) IN
                 SaveAttachments(items, dock_list, i + 1,
                     [attachments |->
                          Append(acc.attachments,
                                 [item |-> i, save_path |-> save_path]),
                      folder |->
                          {f \in acc.folder : f.save_path # save_path}
                          \cup {[save_path |-> save_path,
                                 doc |-> dock_list[k].doc]}])
            ELSE SaveAttachments(items, dock_list, i + 1, acc)

\* generate_draft: without a subject a warning is shown; otherwise the
\* checked items are saved to the draft folder and attached to the mail
generate_draft ==
    /\ alive
    /\ uiPc = "idle"
    /\ drafts < MaxDrafts
    /\ \E text \in Subjects :
         LET subject == strip(text)
             saved == SaveAttachments(attach_list, docks, 1,
                          [attachments |-> <<>>, folder |-> {}])
         IN draft' = IF subject = <<>> THEN NoDraft
                     ELSE [subject |-> subject,
                           attachments |-> saved.attachments,
                           folder |-> saved.folder]
    /\ drafts' = drafts + 1
    /\ UNCHANGED <<docks, temp_files, opens, editorOp, attach_list>>
    /\ UNCHANGED <<schedVars, jobFormVars, ocrVars, weekly>>

\* ------------------------------------------------------------------------
\* Specification
\* ------------------------------------------------------------------------
Next ==
    \/ Tick
    \/ load_jobs_from_db_step
    \/ check_missed_jobs_query
    \/ check_missed_jobs_step
    \/ check_missed_jobs_finish
    \/ check_missed_jobs_done
    \/ \E j \in JobIds : process_job(j)
    \/ \E j \in JobIds : execute_job_by_id(j)
    \/ \E j \in JobIds : execute_job_run(j)
    \/ \E j \in JobIds : execute_job(j)
    \/ \E j \in JobIds : toggle_job_commit(j)
    \/ toggle_job_trigger
    \/ \E j \in JobIds : delete_job(j)

Spec == Init /\ [][Next]_vars

SpecAnyStore == InitAnyStore /\ [][Next]_vars

\* ------------------------------------------------------------------------
\* Running the startup reconciliation a second time
\* ------------------------------------------------------------------------
LiveTriggers == {j \in JobIds : triggers[j].live}

\* nothing is dispatched or running and no trigger is due
Quiescent ==
    \A j \in JobIds :
        /\ pool[j].st = "idle"
        /\ triggers[j].live => triggers[j].next_run_time > now

\* load_jobs_from_db is entered again right after check_missed_jobs
\* returned; what the first run left is recorded
reconcile_again ==
    /\ alive
    /\ uiPc = "idle"
    /\ pass = 1
    /\ ~userActed
    /\ pass' = 2
    /\ first' = [first EXCEPT !.live = LiveTriggers,
                              !.quiet = Quiescent, !.at = now]
    /\ uiPc' = "load"
    /\ uiTodo' = {j \in JobIds : store[j].present}
    /\ sessions' = sessions \cup {0}
    /\ UNCHANGED <<now, store, triggers, pool, uiJob, checkNow, runs,
                   checkRuns, returncode, toggles, toggledOff, boot, alive,
                   deletes, deleteReply>>
    /\ UNCHANGED <<jobFormVars, ocrVars, otherVars>>

NextTwice ==
    \/ Tick
    \/ load_jobs_from_db_step
    \/ check_missed_jobs_query
    \/ check_missed_jobs_step
    \/ check_missed_jobs_finish
    \/ check_missed_jobs_done
    \/ \E j \in JobIds : process_job(j)
    \/ \E j \in JobIds : execute_job_by_id(j)
    \/ \E j \in JobIds : execute_job_run(j)
    \/ \E j \in JobIds : execute_job(j)
    \/ reconcile_again

SpecTwice == Init /\ [][NextTwice]_vars

\* ------------------------------------------------------------------------
\* The forms: the user adds jobs and works in the OCR trainer
\* ------------------------------------------------------------------------
\* the process has started on an empty jobs table and the event loop runs
InitForms ==
    /\ InitFrom({NoJob})
    /\ uiPc = "idle"
    /\ uiTodo = {}
    /\ checkNow = BootTime
    /\ sessions = {}
    /\ NoTemplates \/ OneTemplate

NextForms ==
    \/ \E form \in JobForms : save_job(form)
    \/ upload_sample(Pages)
    \/ mouseReleaseEvent
    \/ save_template

SpecForms == InitForms /\ [][NextForms]_vars

\* the user works in the OCR trainer only
NextTrainer ==
    \/ upload_sample(Pages)
    \/ mouseReleaseEvent
    \/ save_template
    \/ run_extraction(Documents, Reads, MaxExtractions)

SpecTrainer == InitForms /\ [][NextTrainer]_vars

\* the scheduler with a second pass of load_jobs_from_db and with the Add
\* Job dialog
NextLifecycle ==
    \/ NextTwice
    \/ \E form \in JobForms : save_job(form)

SpecLifecycle == Init /\ [][NextLifecycle]_vars

\* the first pages of the samples uploaded one after the other
SamplePages == {[width |-> 4, height |-> 2], [width |-> 6, height |-> 8]}

\* templates are drawn on samples of two page sizes
NextUpload ==
    \/ upload_sample(SamplePages)
    \/ mouseReleaseEvent
    \/ save_template

SpecUpload == InitForms /\ [][NextUpload]_vars

\* documents are opened and closed in the editor and drafts are generated
NextEditor ==
    \/ open_pdf
    \/ close_tab
    \/ close_all
    \/ refresh_attachments
    \/ check_item
    \/ generate_draft

SpecEditor == InitForms /\ [][NextEditor]_vars

\* weekly jobs are saved and scheduled at several days and times
NextWeekly == weekly_job

SpecWeekly == InitForms /\ [][NextWeekly]_vars

\* the reference dimensions of the stored template: those of a page, and
\* degenerate ones
BaseDims ==
    {[width |-> 4, height |-> 2], [width |-> 2, height |-> 2],
     [width |-> 0, height |-> 2], [width |-> 4, height |-> 0]}

\* the field names of the stored template, in the order of definition
StoredNames == {<<<<"N">>>>, <<<<"N">>, <<"Q">>>>}

\* the first pages of the documents extracted from
ScaledPages ==
    {[width |-> 4, height |-> 2], [width |-> 8, height |-> 4],
     [width |-> 2, height |-> 2]}

\* what a document gives for the rectangle of a field: the label with a
\* value, in another case, alone, in the middle of the line, on a later
\* line, directly followed by the value, and a value without label found
\* by the text-box read only
LabelReads ==
    {[clip |-> <<"N", ":", " ", "v">>, textbox |-> <<>>],
     [clip |-> <<"n", " ", "-", "v", "\n">>, textbox |-> <<>>],
     [clip |-> <<"N", ":">>, textbox |-> <<>>],
     [clip |-> <<"x", " ", "N", ":", "v">>, textbox |-> <<>>],
     [clip |-> <<"x", "\n", "N", ":", "v">>, textbox |-> <<>>],
     [clip |-> <<"N", "v">>, textbox |-> <<>>],
     [clip |-> <<" ">>, textbox |-> <<"v", " ">>]}

\* the templates stored after the first: none, or one of a page without
\* width
OtherStored ==
    {<<>>,
     <<[name |-> <<"c">>, base |-> [width |-> 0, height |-> 2],
        names |-> <<<<"N">>>>]>>}

\* the trainer opened on a store that holds one or two templates
InitExtract ==
    /\ InitFrom({NoJob})
    /\ uiPc = "idle"
    /\ uiTodo = {}
    /\ checkNow = BootTime
    /\ sessions = {}
    /\ \E base \in BaseDims, names \in StoredNames, others \in OtherStored :
         StoredTemplates(<<[name |-> <<"b">>, base |-> base,
                            names |-> names]>> \o others)

\* the user extracts from documents of several page sizes; one call more
\* is explored than in the trainer as a whole, so that a call follows one
\* that filled the table
NextExtract ==
    run_extraction(DocumentsOf(ScaledPages), LabelReads, MaxExtractions + 1)

SpecExtract == InitExtract /\ [][NextExtract]_vars

TypeOK ==
    /\ now \in BootTime..MaxTime
    /\ uiPc \in {"load", "check", "check_run", "idle", "toggle"}
    /\ pass \in {1, 2}
    /\ sessions \subseteq {0} \cup JobIds
    /\ alive \in BOOLEAN
    /\ deletes \in 0..MaxDeletes
    /\ deleteReply.reply \in Replies \cup {NullStr}

\* ------------------------------------------------------------------------
\* Startup reconciliation: what was missed at process start
\* ------------------------------------------------------------------------
\* the row of job j as persisted at process start is enabled and its
\* next_run is earlier than the clock reading at process start
MissedAtBoot(j) ==
    /\ boot[j].present
    /\ boot[j].enabled
    /\ boot[j].next_run # Null
    /\ boot[j].next_run < BootTime

\* ... and still within its grace time at clock reading t
InGraceAt(j, t) == t - boot[j].next_run <= boot[j].misfire_grace_time

\* the startup reconciliation is over for job j: __init__ has returned, no
\* handler has run since, and nothing of job j is dispatched, running or due
StartupSettled(j) ==
    /\ uiPc = "idle"
    /\ pass = 1
    /\ ~userActed
    /\ pool[j].st = "idle"
    /\ triggers[j].live => triggers[j].next_run_time > now

\* C1: an enabled one_time job whose persisted next_run is earlier than now
\* and within misfire_grace_time is executed exactly once by the startup
\* reconciliation, counting the run started by check_missed_jobs and the
\* run started by the trigger that schedule_job registered.
C1_MissedOneTimeRunsExactlyOnce ==
    \A j \in JobIds :
        ( /\ MissedAtBoot(j)
          /\ boot[j].job_type = "one_time"
          /\ InGraceAt(j, now)
          /\ StartupSettled(j) )
        => runs[j] = 1

\* C2: every enabled job, recurring or one_time, whose next_run as
\* persisted at process start is earlier than now and within its grace
\* time gets execute_job invoked once by check_missed_jobs as catch-up.
C2_EveryMissedJobCaughtUp ==
    \A j \in JobIds :
        ( /\ MissedAtBoot(j)
          /\ InGraceAt(j, now)
          /\ StartupSettled(j) )
        => checkRuns[j] = 1

\* C3: a job whose persisted next_run is earlier than now by more than its
\* misfire_grace_time is not executed by the startup reconciliation,
\* neither by check_missed_jobs nor by the trigger firing for the missed
\* time, and no job receives more than one catch-up run.  (The runs of a
\* one_time job missed at process start are all catch-up runs; a recurring
\* job is caught up by check_missed_jobs only.)
C3_LateJobsSkippedNoDoubleCatchUp ==
    \A j \in JobIds :
        (MissedAtBoot(j) /\ pass = 1 /\ ~userActed) =>
            /\ ~InGraceAt(j, BootTime) =>
                  IF boot[j].job_type = "one_time"
                  THEN runs[j] = 0
                  ELSE checkRuns[j] = 0
            /\ IF boot[j].job_type = "one_time"
               THEN runs[j] <= 1
               ELSE checkRuns[j] <= 1

\* the first half of C3 on its own
LateJobsSkipped ==
    \A j \in JobIds :
        (MissedAtBoot(j) /\ pass = 1 /\ ~userActed
            /\ ~InGraceAt(j, BootTime)) =>
            IF boot[j].job_type = "one_time"
            THEN runs[j] = 0
            ELSE checkRuns[j] = 0


\* ------------------------------------------------------------------------
\* Running the reconciliation twice
\* ------------------------------------------------------------------------
\* C4: running load_jobs_from_db followed by check_missed_jobs twice in
\* succession yields the same set of live triggers as running it once, and
\* the second run does not execute any job that the first run already
\* caught up.  (The trigger sets are compared when nothing was dispatched,
\* running or due at either moment and the clock did not move in between.)
C4_ReconcileTwiceIdempotent ==
    (pass = 2 /\ uiPc = "idle") =>
        /\ (first.quiet /\ Quiescent /\ first.at = now)
              => LiveTriggers = first.live
        /\ \A j \in first.caught : checkRuns[j] <= 1

\* the first half of C4 on its own
SecondRunSameTriggers ==
    (pass = 2 /\ uiPc = "idle" /\ first.quiet /\ Quiescent /\ first.at = now)
        => LiveTriggers = first.live

\* ------------------------------------------------------------------------
\* One-time jobs
\* ------------------------------------------------------------------------
\* C5: the script of a one_time job is executed at most once over the whole
\* life of its record, under any sequence of startup reconciliation,
\* trigger fires and toggle_job calls.
C5_OneTimeRunsAtMostOnce ==
    \A j \in JobIds :
        (store[j].present /\ store[j].job_type = "one_time") => runs[j] <= 1

\* the case C5 singles out: a one_time job that check_missed_jobs did not
\* run (so that the startup reconciliation ran it at most once) runs at
\* most once
OneTimeNotRerunByToggle ==
    \A j \in JobIds :
        (store[j].present /\ store[j].job_type = "one_time"
            /\ checkRuns[j] = 0) => runs[j] <= 1

\* ------------------------------------------------------------------------
\* toggle_job
\* ------------------------------------------------------------------------
\* toggle_job has returned after setting enabled to false for job j, and
\* the job has not been enabled since
DisabledByToggle(j) ==
    /\ uiPc = "idle"
    /\ j \in toggledOff
    /\ store[j].present
    /\ ~store[j].enabled

\* a script execution of job j starts in this step
ExecutionStarts(j) ==
    \/ pool[j].st # "script" /\ pool'[j].st = "script"
    \/ uiPc # "check_run" /\ uiPc' = "check_run" /\ uiJob' = j

\* C6 as stated: after toggle_job returns having set enabled to false, no
\* live trigger job_<id> exists and no execution of the job starts at any
\* later time until the job is enabled again.
C6_NoExecutionStartsWhileDisabled ==
    [][\A j \in JobIds :
          DisabledByToggle(j) =>
              /\ ~triggers[j].live
              /\ ~ExecutionStarts(j)]_vars

\* C6 as amended: after toggle_job returns having set enabled to false, no
\* live trigger job_<id> exists and the scheduler dispatches no further run
\* of the job until it is enabled again; the only execution that can still
\* start is a run that was dispatched to the executor before.
C6_NoDispatchWhileDisabled ==
    [][\A j \in JobIds :
          DisabledByToggle(j) =>
              /\ ~triggers[j].live
              /\ pool'[j].st = "submitted" => pool[j].st = "submitted"
              /\ ExecutionStarts(j) => pool[j].st = "loaded"]_vars

\* witness of C6: a job disabled through toggle_job whose nominal fire time
\* has passed
C6_Witness ==
    \E j \in JobIds :
        /\ DisabledByToggle(j)
        /\ store[j].job_type = "recurring"
        /\ store[j].next_run # Null
        /\ store[j].next_run <= now
        /\ boot[j].enabled

\* the trigger that a record yields when it is registered at clock reading
\* t, written out field by field
ExpectedTrigger(row, t) ==
    IF row.job_type = "one_time"
    THEN [live |-> TRUE, kind |-> "date", arg |-> row.run_date,
          next_run_time |-> row.run_date,
          misfire_grace_time |-> row.misfire_grace_time]
    ELSE IF row.recurrence = "interval" /\ row.interval_seconds # Null
    THEN [live |-> TRUE, kind |-> "interval", arg |-> row.interval_seconds,
          next_run_time |-> t + row.interval_seconds,
          misfire_grace_time |-> row.misfire_grace_time]
    ELSE IF /\ row.recurrence \in {"daily", "weekly", "monthly"}
            /\ row.recurrence_time \in
                   {<<"0", "9", ":", "0", "0">>, <<"9", ":", "5">>}
            /\ ~(row.recurrence = "weekly" /\ row.day_of_week = <<>>)
    THEN [live |-> TRUE, kind |-> "cron", arg |-> CronPeriod,
          next_run_time |->
              Min({u \in t..(t + CronPeriod) : u % CronPeriod = 0}),
          misfire_grace_time |-> row.misfire_grace_time]
    ELSE NoTrigger

\* C7: re-enabling a disabled job through toggle_job keeps the record and
\* registers the trigger job_<id> built from the fields of the persisted
\* record alone; it is the trigger the first load_jobs_from_db at startup
\* registers for such a record.
C7_ReenableBuildsTriggerFromRecord ==
    [][ /\ (uiPc = "toggle" /\ uiPc' = "idle" /\ store[uiJob].enabled) =>
              /\ store'[uiJob] =
                    [store[uiJob] EXCEPT !.next_run = store'[uiJob].next_run]
              /\ triggers'[uiJob] = ExpectedTrigger(store[uiJob], now)
        /\ (uiPc = "load" /\ pass = 1 /\ uiTodo # {}
                /\ uiTodo' # uiTodo /\ store[Min(uiTodo)].enabled) =>
              triggers'[Min(uiTodo)] =
                  ExpectedTrigger(store[Min(uiTodo)], now) ]_vars

\* witness of C7: a job that was disabled at process start has been enabled
\* through toggle_job and has its trigger
C7_Witness ==
    \E j \in JobIds :
        /\ userActed
        /\ uiPc = "idle"
        /\ ~boot[j].enabled
        /\ store[j].enabled
        /\ triggers[j].live
        /\ triggers[j] = ExpectedTrigger(store[j], triggers[j].next_run_time
                                                   - triggers[j].arg)
        /\ triggers[j].kind = "interval"

\* ------------------------------------------------------------------------
\* The live triggers as a projection of the store
\* ------------------------------------------------------------------------
\* C8: after the startup reconciliation there is exactly one live trigger
\* job_<id> for each persisted job that is enabled and has a well-formed
\* specification, and none for a disabled or non-existent job.  (Checked
\* once nothing of the job is dispatched, running or due.)
C8_TriggersDeterminedByStore ==
    \A j \in JobIds :
        StartupSettled(j) =>
            ( triggers[j].live <=>
                ( /\ store[j].present
                  /\ store[j].enabled
                  /\ BuildTrigger(store[j]).res = "ok" ) )

\* C9: whenever a job has a live trigger and no scheduler operation on it
\* is in progress, the record's next_run equals the trigger's next fire
\* time, right after schedule_job and after every fire of a recurring job.
C9_NextRunInSync ==
    \A j \in JobIds :
        ( /\ triggers[j].live
          /\ uiPc = "idle"
          /\ pool[j].st = "idle" )
        => store[j].next_run = triggers[j].next_run_time

\* the first half of C9 on its own: the step of schedule_job that registers
\* a trigger leaves next_run equal to the trigger's next fire time
NextRunSyncedAtRegistration ==
    [][\A j \in JobIds :
          (~triggers[j].live /\ triggers'[j].live) =>
              store'[j].next_run = triggers'[j].next_run_time]_vars

\* ------------------------------------------------------------------------
\* execute_job
\* ------------------------------------------------------------------------
\* execute_job returns for job j in this step, in a worker or in the UI
\* thread
ExecutionCompletes(j) ==
    \/ pool[j].st = "script" /\ pool'[j].st = "idle"
    \/ uiPc = "check_run" /\ uiJob = j /\ uiPc' = "check"

\* C10: when execute_job completes for a one_time job the record has
\* last_run set, enabled = false and there is no live trigger job_<id>,
\* whatever the exit status of the script; for a recurring job it sets
\* last_run and leaves enabled and the live trigger unchanged.  (The script
\* has an exit status when subprocess.run returned.)
C10_ExecuteJobCompletion ==
    [][\A j \in JobIds :
          (ExecutionCompletes(j) /\ store[j].present
              /\ returncode' \in {0, 1}) =>
              /\ store'[j].last_run = now
              /\ IF store[j].job_type = "one_time"
                 THEN /\ ~store'[j].enabled
                      /\ ~triggers'[j].live
                 ELSE /\ store'[j].enabled = store[j].enabled
                      /\ triggers'[j] = triggers[j]]_vars

\* witness of C10: the only run so far was of a one_time job, its script
\* failed, and the job is disabled with last_run set and no trigger
C10_Witness ==
    \E j \in JobIds :
        /\ store[j].job_type = "one_time"
        /\ runs[j] = 1
        /\ \A k \in JobIds \ {j} : runs[k] = 0
        /\ returncode = 1
        /\ store[j].last_run # Null
        /\ ~store[j].enabled
        /\ ~triggers[j].live
        /\ pool[j].st = "idle"
        /\ uiPc = "idle"

\* ------------------------------------------------------------------------
\* Threads and sessions
\* ------------------------------------------------------------------------
\* C11: job execution never happens on the UI thread: every run of a job's
\* script, the missed-fire catch-up run at startup included, is performed
\* by the scheduler's worker, so the UI thread is never inside
\* subprocess.run waiting for a script to finish.
C11_NoExecutionOnUiThread == uiPc # "check_run"

\* the script of job j is running, in a worker or on the UI thread
ScriptRunning(j) ==
    \/ pool[j].st = "script"
    \/ uiPc = "check_run" /\ uiJob = j

\* C12: no store session is open while a job's script is running: every
\* session opened by execute_job_by_id, check_missed_jobs or any other
\* caller is closed before execute_job launches the script.
C12_NoSessionOpenWhileScriptRuns ==
    \A j \in JobIds : ScriptRunning(j) => sessions = {}

\* ------------------------------------------------------------------------
\* delete_job
\* ------------------------------------------------------------------------
\* delete_job returns in this step for job j with the given answer
DeleteAnswered(j, reply) ==
    /\ deletes' = deletes + 1
    /\ deleteReply' = [job |-> j, reply |-> reply]

\* the record of job j, persisted at process start, has been deleted
Deleted(j) == boot[j].present /\ ~store[j].present

\* C13 as stated: after delete_job is confirmed, neither the job record nor
\* a live trigger job_<id> exists and the job never executes again; when
\* the confirmation is declined, the record, its enabled flag and its live
\* trigger are all unchanged.
C13_DeletedJobNeverExecutes ==
    [][\A j \in JobIds :
          /\ DeleteAnswered(j, "Yes") => Deleted(j)'
          /\ Deleted(j) =>
                /\ ~store'[j].present
                /\ ~triggers[j].live
                /\ ~ExecutionStarts(j)
          /\ DeleteAnswered(j, "No") =>
                /\ store'[j] = store[j]
                /\ triggers'[j] = triggers[j]]_vars

\* C13 as amended: after delete_job is confirmed, neither the job record
\* nor a live trigger job_<id> exists, the scheduler dispatches no further
\* run of the job and a dispatched run whose worker has not yet loaded the
\* record never starts; the only execution that can still start is one
\* whose worker had loaded the record before it was deleted.  When the
\* confirmation is declined, the record, its enabled flag and its live
\* trigger are all unchanged.
C13_DeletedJobNotDispatched ==
    [][\A j \in JobIds :
          /\ DeleteAnswered(j, "Yes") => Deleted(j)'
          /\ Deleted(j) =>
                /\ ~store'[j].present
                /\ ~triggers[j].live
                /\ pool'[j].st = "submitted" => pool[j].st = "submitted"
                /\ pool'[j].st = "loaded" => pool[j].st = "loaded"
                /\ ExecutionStarts(j) => pool[j].st = "loaded"
          /\ DeleteAnswered(j, "No") =>
                /\ store'[j] = store[j]
                /\ triggers'[j] = triggers[j]]_vars

\* witness of C13: the record of an enabled recurring job that had a
\* trigger was deleted while a run of it was dispatched; the run was
\* dropped and the job never ran although its fire time has passed
C13_Witness ==
    \E j \in JobIds :
        /\ Deleted(j)
        /\ deleteReply = [job |-> j, reply |-> "Yes"]
        /\ boot[j].enabled
        /\ boot[j].job_type = "recurring"
        /\ BuildTrigger(boot[j]).res = "ok"
        /\ now = MaxTime
        /\ pool[j].st = "idle"
        /\ runs[j] = 0

\* ------------------------------------------------------------------------
\* Malformed recurrence specifications
\* ------------------------------------------------------------------------
\* a time of day written HH:MM
HHMM(s) ==
    /\ Len(s) = 5
    /\ s[3] = ":"
    /\ \A i \in {1, 2, 4, 5} : DigitValue(s[i]) # Null
    /\ 10 * DigitValue(s[1]) + DigitValue(s[2]) <= 23
    /\ 10 * DigitValue(s[4]) + DigitValue(s[5]) <= 59

\* the recurrence specification of a recurring record is malformed: unknown
\* recurrence kind, recurrence_time that is not HH:MM, empty weekday set,
\* missing interval
Malformed(row) ==
    /\ row.present
    /\ row.job_type = "recurring"
    /\ \/ row.recurrence \notin {"interval", "daily", "weekly", "monthly"}
       \/ row.recurrence = "interval" /\ row.interval_seconds = Null
       \/ /\ row.recurrence \in {"daily", "weekly", "monthly"}
          /\ ~HHMM(row.recurrence_time)
       \/ row.recurrence = "weekly" /\ row.day_of_week = <<>>

\* schedule_job is called in this step for job j: by load_jobs_from_db or
\* by toggle_job
ScheduleJobCalled(j) ==
    /\ store[j].enabled
    /\ \/ uiPc = "load" /\ uiTodo # {} /\ j = Min(uiTodo) /\ uiTodo' # uiTodo
       \/ uiPc = "toggle" /\ uiJob = j /\ uiPc' = "idle"

ExecutionFails(j) ==
    /\ ExecutionCompletes(j)
    /\ \/ returncode' = 1
       \/ returncode' = Null
       \/ ~store[j].present

\* execute_job leaves the records and triggers of the other jobs alone
OtherJobsUnchanged(j) ==
    \A k \in JobIds \ {j} :
        store'[k] = store[k] /\ triggers'[k] = triggers[k]

\* C15: a failing execution is never fatal: when the script exits non-zero,
\* cannot be launched, or the job record has been deleted while the run
\* was in flight, execute_job propagates no exception, the process and its
\* scheduler keep running, and the records and live triggers of all other
\* jobs are unchanged.
C15_FailingExecutionNotFatal ==
    [][\A j \in JobIds :
          ExecutionFails(j) => (alive' /\ OtherJobsUnchanged(j))]_vars

\* the part of C15 that holds: an exception raised inside execute_job is
\* caught there, an execution on the UI thread (the pool is not involved)
\* leaves the process running, and no failing execution touches another
\* job
FailingExecutionCaught ==
    [][\A j \in JobIds :
          ExecutionFails(j) =>
              /\ OtherJobsUnchanged(j)
              /\ (returncode' = Null \/ ~store[j].present) => alive'
              /\ pool'[j] = pool[j] => alive']_vars

\* the record that a successful run of job j, completing now, leaves
SuccessfulRunRecord(j) ==
    execute_job_store(store, j, store[j].job_type, now, 0)[j]

\* C16: an execution failure (non-zero exit or launch failure) is recorded
\* on the job: after such a run the job's persisted state differs from the
\* state left by a successful run, so the failure can be observed from the
\* record.
C16_FailureRecorded ==
    [][\A j \in JobIds :
          ( /\ ExecutionCompletes(j)
            /\ store[j].present
            /\ returncode' \in {1, Null} )
          => store'[j] # SuccessfulRunRecord(j)]_vars

\* ------------------------------------------------------------------------
\* Validation in save_job and save_template
\* ------------------------------------------------------------------------
\* this step is a save_job call that names no job or no script
SaveJobRejected ==
    /\ jobSaves' = jobSaves + 1
    /\ saveJobArgs'.name = "" \/ saveJobArgs'.script = ""

\* this step is a save_template call whose name is empty after trimming,
\* or one made while no box is drawn
SaveTemplateRejected ==
    /\ templateSaves' = templateSaves + 1
    /\ strip(saveTemplateArgs'.text) = <<>> \/ canvas_boxes = <<>>

\* C17: validation failures have no side effect: save_job with an empty
\* name or an empty script path persists no job and registers no trigger,
\* and save_template with a name that is empty after trimming, or with no
\* drawn boxes, persists no template and no field and deletes nothing.
C17_ValidationNoSideEffect ==
    [][ /\ SaveJobRejected => (store' = store /\ triggers' = triggers)
        /\ SaveTemplateRejected =>
               (templates' = templates /\ fields' = fields) ]_vars

\* C17 witness: a job and a template were saved, then save_job was called
\* without a script and save_template with a blank name while boxes were
\* drawn
C17_Witness ==
    /\ jobSaves = 2
    /\ saveJobArgs = [name |-> "job", script |-> ""]
    /\ \E j \in JobIds : store[j].present /\ triggers[j].live
    /\ templateSaves = 2
    /\ saveTemplateArgs.text = <<" ">>
    /\ canvas_boxes # <<>>
    /\ \E t \in TemplateIds :
         templates[t].present /\ template_fields(fields, t) # <<>>

\* ------------------------------------------------------------------------
\* Templates by name
\* ------------------------------------------------------------------------
\* the templates in the store
Persisted == {t \in TemplateIds : templates[t].present}

\* C18: template names are unique in the store: after any sequence of
\* save_template calls with any mix of confirmed and declined overwrites,
\* no two persisted templates have the same name.
C18_TemplateNamesUnique ==
    \A t, u \in Persisted : templates[t].name = templates[u].name => t = u

\* C18 witness: two templates are stored, and the last save_template call
\* was a confirmed overwrite of one of them
C18_Witness ==
    /\ Cardinality(Persisted) = 2
    /\ templateSaves = 2
    /\ saveTemplateArgs.reply = "Yes"

\* this step is a save_template call that passed validation and found a
\* template of the trimmed name; reply is the answer to the question
OverwriteAsked(reply) ==
    /\ templateSaves' = templateSaves + 1
    /\ saveTemplateArgs'.reply = reply

\* the drawn boxes as fields of template t: the names, and the rectangles
\* in page coordinates
DrawnFields(t) ==
    [i \in 1..Len(canvas_boxes) |->
        field_of_box(t, canvas_boxes[i], canvas_scale_factor)]

\* every field row belongs to a stored template
NoOrphanField(tpls, flds) ==
    \A f \in FieldIds :
        flds[f].present => ( /\ flds[f].template_id \in TemplateIds
                             /\ tpls[flds[f].template_id].present )

\* C19: save_template on a name that already exists replaces the template
\* as a whole: if the overwrite is declined the old template and its
\* fields are unchanged; if it is confirmed the store holds one template
\* of that name whose fields are exactly the currently drawn boxes, and no
\* field of the old template remains (no field references a deleted
\* template).
C19_OverwriteReplacesWhole ==
    [][ LET name == strip(saveTemplateArgs'.text)
            old == find_template(templates, name)
            named == {t \in TemplateIds : /\ templates'[t].present
                                          /\ templates'[t].name = name}
        IN
        /\ OverwriteAsked("No") =>
               (templates' = templates /\ fields' = fields)
        /\ OverwriteAsked("Yes") =>
               /\ Cardinality(named) = 1
               /\ \A t \in named :
                    template_fields(fields', t) = DrawnFields(t)
               /\ NoOrphanField(templates', fields')
               /\ \A t \in TemplateIds \ (named \cup {old}) :
                    /\ templates'[t] = templates[t]
                    /\ template_fields(fields', t)
                           = template_fields(fields, t) ]_vars

\* C19 witness: a template was overwritten, on confirmation, by one with
\* the two drawn boxes as its fields, while a second template with one
\* field is stored
C19_Witness ==
    /\ saveTemplateArgs.reply = "Yes"
    /\ Cardinality(Persisted) = 2
    /\ \E t \in Persisted :
         /\ templates[t].name = strip(saveTemplateArgs.text)
         /\ Len(template_fields(fields, t)) = 2
         /\ Len(canvas_boxes) = 2
    /\ \E t \in Persisted : Len(template_fields(fields, t)) = 1

\* ------------------------------------------------------------------------
\* Extraction
\* ------------------------------------------------------------------------
\* this step is a run_extraction call on template t with a readable
\* document
Extracts(t) ==
    /\ extractions' = extractions + 1
    /\ extractArgs'.template_id = t
    /\ extractArgs'.readable

\* C20: for every template with non-zero reference dimensions and every
\* readable document, run_extraction produces exactly len(template.fields)
\* result rows, row i holding the name of the i-th field in the order the
\* fields were defined.
C20_OneRowPerFieldInOrder ==
    [][\A t \in TemplateIds :
          ( /\ Extracts(t)
            /\ templates[t].present
            /\ templates[t].base_width # 0
            /\ templates[t].base_height # 0 )
          => /\ Len(result_table') = Len(template_fields(fields, t))
             /\ Len(result_table') = Len(defined[t])
             /\ \A i \in 1..Len(result_table') :
                  result_table'[i].field = defined[t][i]]_vars

\* C20 witness: an extraction with a template of two fields of different
\* names, saved after another template, filled two rows
C20_Witness ==
    /\ extractions = 1
    /\ extractArgs.readable
    /\ extractArgs.template_id = 2
    /\ Len(result_table) = 2
    /\ result_table[1].field # result_table[2].field
    /\ Cardinality(Persisted) = 2

\* ------------------------------------------------------------------------
\* The rectangle read for a field
\* ------------------------------------------------------------------------
\* this step is a run_extraction call on the stored template t, which has
\* non-zero reference dimensions, with a readable document
ExtractsFrom(t) ==
    /\ Extracts(t)
    /\ templates[t].present
    /\ templates[t].base_width # 0
    /\ templates[t].base_height # 0

\* the quotient q is the number n / d
IsQuotient(q, n, d) == q.den # 0 /\ q.num * d = n * q.den

\* C21: the rectangle read for each field is the stored rectangle scaled by
\* scale_x = actual_width/base_width and scale_y = actual_height/base_height
\* and then expanded by 2 units on every side: (x*scale_x - 2,
\* y*scale_y - 2, (x+width)*scale_x + 2, (y+height)*scale_y + 2); when the
\* document's page dimensions equal the template's reference dimensions it
\* is the stored rectangle expanded by 2 units.
C21_ReadRectScaledAndPadded ==
    [][\A t \in TemplateIds :
          ExtractsFrom(t) =>
              LET flds == template_fields(fields, t)
                  read == extractArgs'.read
                  aw == extractArgs'.page.width
                  ah == extractArgs'.page.height
                  bw == templates[t].base_width
                  bh == templates[t].base_height
              IN
              /\ Len(read) = Len(flds)
              /\ \A i \in 1..Len(flds) :
                   LET f == flds[i]
                       rect == read[i].rect
                   IN
                   /\ IsQuotient(rect.x0, f.x * aw - 2 * bw, bw)
                   /\ IsQuotient(rect.y0, f.y * ah - 2 * bh, bh)
                   /\ IsQuotient(rect.x1, (f.x + f.width) * aw + 2 * bw, bw)
                   /\ IsQuotient(rect.y1, (f.y + f.height) * ah + 2 * bh, bh)
                   /\ (aw = bw /\ ah = bh) =>
                          /\ IsQuotient(rect.x0, f.x - 2, 1)
                          /\ IsQuotient(rect.y0, f.y - 2, 1)
                          /\ IsQuotient(rect.x1, f.x + f.width + 2, 1)
                          /\ IsQuotient(rect.y1, f.y + f.height + 2, 1)]_vars

\* C21 witness: two fields were read from a page twice as wide and high as
\* the reference page of the template
C21_Witness ==
    /\ extractions = 1
    /\ extractArgs.template_id = 1
    /\ extractArgs.page = [width |-> 8, height |-> 4]
    /\ templates[1].base_width = 4
    /\ templates[1].base_height = 2
    /\ Len(extractArgs.read) = 2
    /\ IsQuotient(extractArgs.read[2].rect.x1, 18, 1)

\* ------------------------------------------------------------------------
\* Label stripping
\* ------------------------------------------------------------------------
\* the text begins with the name, compared case-insensitively
BeginsWithLabel(name, text) ==
    /\ Len(text) >= Len(name)
    /\ IgnoreCase(SubSeq(text, 1, Len(name))) = IgnoreCase(name)

\* the name occurs in the text at position p, compared case-insensitively
OccursAt(name, text, p) ==
    /\ p + Len(name) - 1 <= Len(text)
    /\ IgnoreCase(SubSeq(text, p, p + Len(name) - 1)) = IgnoreCase(name)

\* the text without the name at its start and the colons, hyphens and
\* white space that follow it
WithoutLabel(name, text) ==
    LET rest == SubSeq(text, Len(name) + 1, Len(text)) IN
    SubSeq(rest, SeparatorRun(rest) + 1, Len(rest))

\* the rows that a successful run_extraction call of this step filled: the
\* field name, the raw text read and the value shown
ExtractedRows ==
    IF /\ extractions' = extractions + 1
       /\ extractArgs'.read # <<>>
    THEN {[name |-> result_table'[i].field,
           raw |-> extractArgs'.read[i].text,
           value |-> result_table'[i].value] :
              i \in 1..Len(extractArgs'.read)}
    ELSE {}

\* C22: label stripping: whenever the raw text of a field begins with the
\* field's name (compared case-insensitively), optionally followed by a
\* colon or hyphen and whitespace, the extracted value is the raw text with
\* that prefix removed once, including when the remainder is empty; in
\* every other case the value is the raw text unchanged.
C22_LabelStripped ==
    [][\A row \in ExtractedRows :
          row.value = IF BeginsWithLabel(row.name, row.raw)
                      THEN WithoutLabel(row.name, row.raw)
                      ELSE row.raw]_vars

\* the part of C22 that holds: the prefix is removed whenever something
\* remains after it, and the raw text is the value in every other case
LabelStrippedUnlessAlone ==
    [][\A row \in ExtractedRows :
          row.value = IF /\ BeginsWithLabel(row.name, row.raw)
                         /\ WithoutLabel(row.name, row.raw) # <<>>
                      THEN WithoutLabel(row.name, row.raw)
                      ELSE row.raw]_vars

\* C23: label matching is anchored at the first character of the raw text
\* only: if the field's name occurs in the raw text but not at position 0
\* (for example later in the first line or at the start of a later line),
\* nothing is stripped and the value is the raw text unchanged.
C23_LabelAnchoredAtStart ==
    [][\A row \in ExtractedRows :
          ( /\ \E p \in 2..Len(row.raw) : OccursAt(row.name, row.raw, p)
            /\ ~OccursAt(row.name, row.raw, 1) )
          => row.value = row.raw]_vars

\* C23 witness: the field "N" was read from a text that has the name at
\* the start of its second line, and from one that has it later in the
\* first line, and both values are the raw texts
C23_Witness ==
    /\ Len(extractArgs.read) = 2
    /\ Len(result_table) = 2
    /\ result_table[1].field = <<"N">>
    /\ extractArgs.read[1].text = <<"x", "\n", "N", ":", "v">>
    /\ result_table[1].value = extractArgs.read[1].text
    /\ extractArgs.read[2].text = <<"x", " ", "N", ":", "v">>

\* ------------------------------------------------------------------------
\* Reference dimensions of zero
\* ------------------------------------------------------------------------
\* C24: extraction with a template whose base_width or base_height is zero
\* ends in an error surfaced to the caller and produces no result rows:
\* the result table holds what it held before the call and no field text
\* is read.
C24_ZeroBaseProducesNoRows ==
    [][\A t \in TemplateIds :
          ( /\ Extracts(t)
            /\ templates[t].present
            /\ templates[t].base_width = 0 \/ templates[t].base_height = 0 )
          => /\ extractArgs'.critical
             /\ result_table' = result_table
             /\ extractArgs'.read = <<>>]_vars

\* C24 witness: after an extraction that filled two rows, a readable
\* document was extracted with the template of zero width, and the rows
\* are still there
C24_Witness ==
    /\ extractions = 2
    /\ extractArgs.readable
    /\ extractArgs.template_id = 2
    /\ templates[2].present
    /\ templates[2].base_width = 0
    /\ extractArgs.critical
    /\ extractArgs.read = <<>>
    /\ Len(result_table) = 2

\* ------------------------------------------------------------------------
\* Weekdays of a weekly job
\* ------------------------------------------------------------------------
\* the name of the day of the calendar on which the clock reading t lies
DayNameAt(t) == day_names[((t \div Day) % 7) + 1]

\* the clock reading t is 09:00 on a day whose box is checked
WeeklyDue(checked, t) == DayNameAt(t) \in checked /\ t % Day = 9 * 60

\* C25: for a weekly job saved with the Monday and Wednesday boxes checked
\* and time 09:00, the next fire time computed by the registered trigger
\* after a 'now' of Tuesday 10:00 is the Wednesday 09:00 that follows; in
\* general the weekday indices persisted by save_job (0 = Monday ...
\* 6 = Sunday) select the same weekdays in the trigger built by
\* schedule_job.
C25_WeekdaysSelected ==
    (weekly.now # Null /\ weekly.checked # {}) =>
        /\ weekly.next_run_time # Null
        /\ weekly.next_run_time >= weekly.now
        /\ WeeklyDue(weekly.checked, weekly.next_run_time)
        /\ \A u \in weekly.now..(weekly.next_run_time - 1) :
             u % 60 = 0 => ~WeeklyDue(weekly.checked, u)
        /\ ( /\ weekly.checked = {"Monday", "Wednesday"}
             /\ weekly.now = 1 * Day + 10 * 60 )
           => weekly.next_run_time = 2 * Day + 9 * 60

\* C25 witness: Monday and Wednesday are checked, it is Tuesday 10:00 and
\* the trigger fires next on Wednesday 09:00
C25_Witness ==
    /\ weekly.checked = {"Monday", "Wednesday"}
    /\ weekly.day_of_week = <<"0", ",", "2">>
    /\ weekly.now = 1 * Day + 10 * 60
    /\ weekly.next_run_time = 2 * Day + 9 * 60

\* ------------------------------------------------------------------------
\* The worker against toggle_job
\* ------------------------------------------------------------------------
\* toggle_job has committed enabled = false for job j (it may not have
\* removed the trigger yet)
FlagFalseByToggle(j) ==
    /\ j \in toggledOff
    /\ store[j].present
    /\ ~store[j].enabled

\* the scheduler hands a run of job j to the executor in this step
Dispatches(j) == pool[j].st # "submitted" /\ pool'[j].st = "submitted"

\* C26: no execution of a job's script starts at a moment when the job's
\* persisted enabled flag is false, under every interleaving of the
\* scheduler worker (execute_job_by_id) with toggle_job, which commits
\* enabled = false before it removes the live trigger.
C26_NoStartWhileFlagFalse ==
    [][\A j \in JobIds : FlagFalseByToggle(j) => ~ExecutionStarts(j)]_vars

\* C26 as amended: while the flag that toggle_job set to false is false, a
\* run of the job is dispatched only between the commit of toggle_job and
\* its remove_job, never after toggle_job has returned, and the only
\* executions that start are those of runs held by the executor (handed to
\* it before the commit or in that window), which execute_job_by_id starts
\* without looking at the flag.
C26_StartOnlyOfEarlierRun ==
    [][\A j \in JobIds :
          FlagFalseByToggle(j) =>
              /\ Dispatches(j) =>
                     (uiPc = "toggle" /\ uiJob = j /\ triggers[j].live)
              /\ ExecutionStarts(j) =>
                     (pool[j].st = "loaded" /\ uiPc' # "check_run")]_vars

\* C26 witness: the script of a job runs while its flag is false and
\* toggle_job has returned and removed the trigger
C26_Witness ==
    \E j \in JobIds :
        /\ FlagFalseByToggle(j)
        /\ uiPc = "idle"
        /\ ~triggers[j].live
        /\ pool[j].st = "script"

\* ------------------------------------------------------------------------
\* One trigger per job
\* ------------------------------------------------------------------------
\* save_job passes validation in this step and calls schedule_job for the
\* row it added, which got the id j
SaveJobSchedules(j) ==
    /\ jobSaves' = jobSaves + 1
    /\ save_job_valid(saveJobArgs'.name, saveJobArgs'.script)
    /\ j = MaxId(store) + 1

PersistedNow ==
    IF templateSaves' = templateSaves + 1
    THEN {t \in TemplateIds : /\ templates'[t].present
                              /\ templates'[t] # templates[t]}
    ELSE {}

\* C28: whenever save_template persists a template, its base_width and
\* base_height are the dimensions of the page on which all currently drawn
\* boxes were drawn: after any sequence of upload_sample calls (successful
\* or failing part-way) and box drawings, the stored reference dimensions
\* and the canvas boxes belong to the same sample page.
C28_BaseDimsOfBoxPage ==
    [][\A t \in PersistedNow :
          /\ templates'[t].base_width = canvas_pixmap.width
          /\ templates'[t].base_height = canvas_pixmap.height]_vars

\* the part of C28 that holds: the reference dimensions are those that the
\* last upload_sample that got as far as the page stored
BaseDimsOfLastPageLoaded ==
    [][\A t \in PersistedNow :
          /\ templates'[t].base_width = actual_page.width
          /\ templates'[t].base_height = actual_page.height]_vars

\* ------------------------------------------------------------------------
\* Temp files of converted documents
\* ------------------------------------------------------------------------
\* the temp files that a tab in the list shows
ShownTempFiles(dock_list) ==
    {dock_list[k].temp_path : k \in {i \in 1..Len(dock_list) :
                                        dock_list[i].is_temp}}

\* C29: the temporary PDF created when an Office file is opened exists on
\* disk exactly as long as a tab showing it is open: cancelling the close
\* prompt of close_tab leaves both the tab and its temp file in place, and
\* closing the tab by close_tab or close_all deletes the temp file.
C29_TempFileWhileTabOpen == temp_files = ShownTempFiles(docks)

\* the part of C29 about Cancel: the answer Cancel to the question of
\* close_tab leaves the docks and the temp files as they were
CancelKeepsTabAndFile ==
    [][(editorOp'.op = "close_tab" /\ editorOp'.reply = "Cancel")
          => docks' = docks /\ temp_files' = temp_files]_vars

\* the part of C29 about close_all: the answer Yes to the question of
\* close_all leaves no temp file of a tab that was closed
CloseAllDeletesTempFiles ==
    [][(editorOp'.op = "close_all" /\ editorOp'.reply = "Yes")
          => temp_files' \cap ShownTempFiles(docks) = {}]_vars

\* what holds of the temp files: a tab is never closed by close_tab with
\* more temp files on disk than before, and close_all removes none
CloseNeverAddsTempFile ==
    [][/\ editorOp'.op = "close_tab" => temp_files' \subseteq temp_files
       /\ editorOp'.op = "close_all" => temp_files' = temp_files]_vars

\* ------------------------------------------------------------------------
\* Attachments of a draft
\* ------------------------------------------------------------------------
\* the documents that the mail of draft d carries for the item at index i:
\* what the files attached for it hold
AttachedDocs(d, i) ==
    {f.doc : f \in {g \in d.folder :
                      \E n \in 1..Len(d.attachments) :
                          /\ d.attachments[n].item = i
                          /\ d.attachments[n].save_path = g.save_path}}

\* this step is a generate_draft call that got as far as the attachments
Drafts == drafts' = drafts + 1 /\ draft'.subject # <<>>

\* the tab that an item of the attachment list was made for is still open
TabOpen(item) == \E k \in 1..Len(docks) : docks[k].doc = item.tab

\* C30: generate_draft attaches, for each checked item of the attachment
\* list, the document of the tab whose title the item shows: this holds
\* after any sequence of opening and closing tabs between
\* refresh_attachments and generate_draft, and an item whose tab no longer
\* exists attaches nothing.
C30_AttachesTabOfItem ==
    [][Drafts =>
         \A i \in 1..Len(attach_list) :
            attach_list[i].checkState = "Checked" =>
                AttachedDocs(draft', i) =
                    IF TabOpen(attach_list[i])
                    THEN {attach_list[i].tab}
                    ELSE {}]_vars

\* what holds of the attachments: a checked item whose stored index is
\* within the present list attaches one file, named after the dock that is
\* now at that index; any other item attaches none
AttachesDockAtIndex ==
    [][Drafts =>
         \A i \in 1..Len(attach_list) :
            LET item == attach_list[i]
                found == {n \in 1..Len(draft'.attachments) :
                            draft'.attachments[n].item = i}
            IN IF item.checkState = "Checked" /\ item.data < Len(docks)
               THEN /\ Cardinality(found) = 1
                    /\ \A n \in found :
                          draft'.attachments[n].save_path =
                              attachment_name(docks[item.data + 1].title)
               ELSE found = {}]_vars

====
